---- MODULE Spec2Model ----
(***************************************************************************)
(* osgrep: verification model of the worker pool manager, the sync        *)
(* orchestrator with the index store and MetaStore, the watcher, and the   *)
(* store search.  Each component has its own specification; the variables  *)
(* of the other components stay unchanged under it.                        *)
(***************************************************************************)
EXTENDS Integers, Sequences, FiniteSets, TLC

(***************************************************************************)
(* Part 1.  WorkerManager (src/src/lib/worker-manager.ts)                  *)
(***************************************************************************)

\* Bounds of the worker-manager model.
MaxRequests == 2
MaxWorkers == 3

\* Program constants.
MAX_RETRIES == 1
MAX_WORKER_MEMORY_MB == 2048

Requests == 1..MaxRequests
WorkerIds == 1..MaxWorkers
AttemptIds == 1..((MAX_RETRIES + 1) * MaxRequests)
NoTask == [req |-> 0, attempt |-> 0, id |-> 0, phase |-> "none"]
RssValues == {0, MAX_WORKER_MEMORY_MB, MAX_WORKER_MEMORY_MB + 1}

VARIABLES
    worker,               \* this.worker: 0 is null, else the worker's number
    pendingRequests,      \* this.pendingRequests: ids of attempts posted and not settled
    isClosing,            \* this.isClosing
    queue,                \* this.queue: the tasks chained and not yet started
    consecutiveRecycles,  \* this.consecutiveRecycles
    lastRequestId,        \* this.lastRequestId: 0 is null
    running,              \* the task of the queue that is executing sendToWorkerUnqueued
    settled,              \* per request: "new", "queued", "resolved", "rejected"
    wstate,               \* per worker: "unborn", "alive", "crashed", "terminating", "exited"
    wlisten,              \* per worker: its message/error/exit listeners are attached
    inbox,                \* per worker: ids posted to it and not yet answered
    nextId,               \* the next uuid of attemptWorkerRequest
    closePc,              \* position of close(): "idle", "draining", "posted", "closed"
    recycleRun            \* history: the request whose attempts triggered the last
                          \* recycles, and how many in a row

wmVars == <<worker, pendingRequests, isClosing, queue, consecutiveRecycles,
            lastRequestId, running, settled, wstate, wlisten, inbox, nextId, closePc,
            recycleRun>>

\* Sync orchestrator, index store, MetaStore and watcher (Part 2).
VARIABLES
    disk,            \* the working tree: per path its content, or Absent
    customIgnored,   \* paths matched by the custom patterns (defaults, .osgrepignore, --exclude)
    gitIgnored,      \* paths matched by .gitignore
    rows,            \* the store table: per path and hash, the number of rows
    metaFile,        \* ~/.osgrep/meta.json: per path its hash, or NoHash
    metaData,        \* MetaStore.data of the running process
    proc,            \* the running command: "none", "cli" (index, search --sync) or "serve"
    cpus,            \* os.cpus().length
    dryRun,          \* the dryRun argument of initialSync
    aborted,         \* signal.aborted of the search command's AbortController
    syncPc,          \* position of initialSync
    storeIsEmpty,    \* initialSync's storeIsEmpty
    initialDbCount,  \* initialSync's initialDbCount
    stalePaths,      \* initialSync's stalePaths
    stalePending,    \* the stale deletes of Promise.all not yet settled
    pipe,            \* per path, the file pipeline of initialSync
    processed,       \* initialSync's processed
    indexed,         \* initialSync's indexed
    total,           \* initialSync's total
    indexCalls,      \* the createFTSIndex / createVectorIndex calls of this sync
    pending,         \* createWatcher's pending map, in insertion order
    wrun,            \* per run of processPending: its remaining actions and its current job
    hist             \* instrumentation: counters and outcomes the properties refer to

fsVars == <<disk, customIgnored, gitIgnored, cpus>>
storeVars == <<rows, metaFile, metaData>>
procVars == <<proc, dryRun, aborted>>
syncLocals == <<syncPc, storeIsEmpty, initialDbCount, stalePaths, stalePending, pipe,
                processed, indexed, total, indexCalls>>
watchVars == <<pending, wrun>>
syncVars == <<fsVars, storeVars, procVars, syncLocals, watchVars, hist>>

\* LocalStore.search and the search command (Part 3).
VARIABLES
    table,           \* the rows of the table in the order the vector search yields them
    request,         \* the options of the last search command
    results          \* the data the last search returned

searchVars == <<table, request, results>>

\* The HTTP server of the serve command (Part 4): the handler of one request.
VARIABLES
    hreq,            \* the request: Authorization header, method, url, Content-Length
    hpc,             \* position of its handler: "idle", "wait", "body", "search", "done"
    body,            \* the body the "end" listener parsed
    receivedBytes,   \* receivedBytes of the handler
    rejected,        \* rejected of the handler
    nchunks,         \* number of "data" events so far
    responses,       \* the statuses respondJson sent for the request, in order
    storeQueries,    \* number of store.search calls made for the request
    isIndexing,      \* indexState.isIndexing
    progress,        \* indexState.indexed, .processed and .total
    bg,              \* the background initialSync of serve: its position and counters
    sentProgress,    \* the `progress` of the payloads sent: of the 503 and of the results
    sentStatus,      \* the `status` of the results payload, when one was sent
    filters          \* the filters handed to store.search

httpVars == <<hreq, hpc, body, receivedBytes, rejected, nchunks, responses, storeQueries,
              isIndexing, progress, bg, sentProgress, sentStatus, filters>>

\* The index command and the search command (Part 5).
VARIABLES
    cmd,             \* the command being run and its options
    cmdPc,           \* position of the command's action
    cstore,          \* the command's store: "null", "open" or "closed"
    calls,           \* number of calls the command made, per callee
    autoSync,        \* the search command's autoSync
    didSync,         \* the search command's didSync
    spinner,         \* the last call on the indexing spinner
    exitCode,        \* process.exitCode, or the argument of process.exit
    queryFilter,     \* the starts_with value of the store query, when one was issued
    thrown,          \* an error thrown inside the inner try, while `finally` runs
    cmdRuns          \* instrumentation: number of commands started

cmdVars == <<cmd, cmdPc, cstore, calls, autoSync, didSync, spinner, exitCode, queryFilter,
             thrown, cmdRuns>>

\* The processes of the serve command and their memory monitor (Part 6).
VARIABLES
    procs,           \* per PID, the serve process: its position, its timers, its child
    portOwner,       \* the PID listening on the port, 0 when none
    lockPid,         \* the pid of server.lock, 0 when there is no lock file
    now,             \* Date.now(), in units of 100 s
    warnings         \* instrumentation: per PID, the times of its memory warnings

serveVars == <<procs, portOwner, lockPid, now, warnings>>

\* The MetaStore saves of initialSync over a large tree (Part 7).
VARIABLES
    msync            \* initialSync with its files counted: position, counters, save calls

\* The watcher of the watch command.
VARIABLES
    watchCmd         \* debounceTimers, and per path the events of the current burst and
                     \* the ingest actions they started

vars == <<wmVars, syncVars, searchVars, httpVars, cmdVars, serveVars, msync, watchCmd>>

\* The mutable fields a handler of the manager works on, as one record, so that
\* the sequential code of a handler is a composition of operators on it.
WmState ==
    [worker |-> worker, pendingRequests |-> pendingRequests,
     consecutiveRecycles |-> consecutiveRecycles, lastRequestId |-> lastRequestId,
     running |-> running, settled |-> settled, wstate |-> wstate, wlisten |-> wlisten,
     recycleRun |-> recycleRun]

WmAssign(s) ==
    /\ worker' = s.worker
    /\ pendingRequests' = s.pendingRequests
    /\ consecutiveRecycles' = s.consecutiveRecycles
    /\ lastRequestId' = s.lastRequestId
    /\ running' = s.running
    /\ settled' = s.settled
    /\ wstate' = s.wstate
    /\ wlisten' = s.wlisten
    /\ recycleRun' = s.recycleRun

\* Mutant of SettleAttempt: a failed attempt rejects the request at once.
SettleAttempt_NoRetry(s, id, ok) ==
    IF s.running.phase # "await" \/ s.running.id # id THEN s
    ELSE IF ok THEN
        [s EXCEPT !.settled[s.running.req] = "resolved", !.running = NoTask]
    ELSE
        [s EXCEPT !.settled[s.running.req] = "rejected", !.running = NoTask]

\* The promise of attempt `id` settles: the continuation of sendToWorkerUnqueued.
\* A resolved attempt resolves the request; a rejected one is retried after the
\* back-off while attempt < MAX_RETRIES, and rejects the request otherwise.
SettleAttempt(s, id, ok) ==
    IF s.running.phase # "await" \/ s.running.id # id THEN s
    ELSE IF ok THEN
        [s EXCEPT !.settled[s.running.req] = "resolved", !.running = NoTask]
    ELSE IF s.running.attempt < MAX_RETRIES THEN
        [s EXCEPT !.running.phase = "backoff", !.running.id = 0]
    ELSE
        [s EXCEPT !.settled[s.running.req] = "rejected", !.running = NoTask]

\* Mutant of recycleWorker: the old worker is terminated but the reference to
\* it is kept.
recycleWorker_KeepRef(s, requestId) ==
    IF isClosing \/ s.worker = 0 THEN s
    ELSE [s EXCEPT !.consecutiveRecycles = 1, !.lastRequestId = requestId,
                   !.wlisten[s.worker] = FALSE,
                   !.wstate[s.worker] = "terminating"]

\* recycleWorker(reason, requestId); requestId = 0 is undefined.
recycleWorker(s, requestId) ==
    IF isClosing \/ s.worker = 0 THEN s
    ELSE
        LET same == requestId # 0 /\ requestId = s.lastRequestId
            s1 == IF same
                  THEN [s EXCEPT !.consecutiveRecycles = @ + 1]
                  ELSE [s EXCEPT !.consecutiveRecycles = 1, !.lastRequestId = requestId]
        IN  IF s1.consecutiveRecycles > 3 THEN
                LET s2 == [s1 EXCEPT !.consecutiveRecycles = 0, !.lastRequestId = 0]
                IN  IF requestId \in s2.pendingRequests
                    THEN SettleAttempt(
                             [s2 EXCEPT !.pendingRequests = @ \ {requestId}],
                             requestId, FALSE)
                    ELSE s2
            ELSE
                [s1 EXCEPT !.worker = 0,
                           !.wlisten[s.worker] = FALSE,
                           !.wstate[s.worker] = "terminating"]

\* handleMessage(message): the reply {id, error, memory.rss}.
handleMessage(s, id, error, rss) ==
    IF id \notin s.pendingRequests THEN s
    ELSE
        LET s1 == SettleAttempt(s, id, ~error)
            s2 == [s1 EXCEPT !.pendingRequests = @ \ {id}]
            s3 == IF id = s2.lastRequestId
                  THEN [s2 EXCEPT !.consecutiveRecycles = 0, !.lastRequestId = 0]
                  ELSE s2
        IN  IF rss # 0 /\ rss > MAX_WORKER_MEMORY_MB
            THEN recycleWorker(s3, id)
            ELSE s3

\* History of the recycles: `s` is the state a handler that ran for an attempt of
\* request `req` leaves.  When the handler recycled the worker, the recycle is
\* one more in a row for req, or the first of a new run; a reply that is
\* handled without a recycle ends the run.
NoteRecycle(s, req, replied) ==
    IF worker # 0 /\ s.worker = 0 THEN
        [s EXCEPT !.recycleRun = IF @.req = req THEN [@ EXCEPT !.n = @ + 1]
                                 ELSE [req |-> req, n |-> 1]]
    ELSE IF replied THEN [s EXCEPT !.recycleRun = [req |-> 0, n |-> 0]]
    ELSE s

\* Mutant of rejectAll: the entries are removed, their timers cleared, and no
\* promise is rejected.
rejectAll_ClearOnly(s) == [s EXCEPT !.pendingRequests = {}]

\* rejectAll(error): every pending attempt is rejected and removed.
rejectAll(s) ==
    LET s1 == IF s.running.phase = "await" /\ s.running.id \in s.pendingRequests
              THEN SettleAttempt(s, s.running.id, FALSE)
              ELSE s
    IN  [s1 EXCEPT !.pendingRequests = {}]

\* Mutant of MicrotaskReady: the task is started without chaining it behind the
\* run before it.
MicrotaskReady_NoChain == queue # <<>>

\* enqueue's this.queue.then(task, task): the next task of the chain starts, as
\* a microtask, once the run before it has settled; it runs before any timer or
\* worker event is handled.
MicrotaskReady == running = NoTask /\ queue # <<>>

\* The numbers a new Worker can take: those never used and those of workers
\* that have exited, of which nothing is heard any more.
FreeWorkerIds == {w \in WorkerIds : wstate[w] \in {"unborn", "exited"}}

\* attemptWorkerRequest: ensureWorker, a fresh id, the pending entry with its
\* timer, and the message posted to the worker.
attemptWorkerRequest(req, attempt) ==
    /\ nextId \in AttemptIds
    /\ worker # 0 \/ FreeWorkerIds # {}
    /\ LET w == IF worker # 0 THEN worker
                ELSE CHOOSE x \in FreeWorkerIds : \A y \in FreeWorkerIds : x <= y
       IN  /\ worker' = w
           /\ wstate' = IF worker = 0 THEN [wstate EXCEPT ![w] = "alive"] ELSE wstate
           /\ wlisten' = IF worker = 0 THEN [wlisten EXCEPT ![w] = TRUE] ELSE wlisten
           /\ inbox' = IF wstate'[w] \in {"alive", "crashed"}
                       THEN [inbox EXCEPT ![w] = @ \cup {nextId}]
                       ELSE inbox
    /\ pendingRequests' = pendingRequests \cup {nextId}
    /\ running' = [req |-> req, attempt |-> attempt, id |-> nextId, phase |-> "await"]
    /\ nextId' = nextId + 1

\* enqueue(task) as called by sendToWorker: rejected while closing, else
\* chained behind the queue.
enqueue(r) ==
    /\ settled[r] = "new"
    /\ IF isClosing
       THEN /\ settled' = [settled EXCEPT ![r] = "rejected"]
            /\ queue' = queue
       ELSE /\ settled' = [settled EXCEPT ![r] = "queued"]
            /\ queue' = Append(queue, r)
    /\ UNCHANGED <<recycleRun, worker, pendingRequests, isClosing, consecutiveRecycles, lastRequestId,
                   running, wstate, wlisten, inbox, nextId, closePc>>
    /\ UNCHANGED <<syncVars, searchVars, httpVars, cmdVars, serveVars, msync, watchCmd>>

computeHybrid(r) == enqueue(r)

encodeQuery(r) == enqueue(r)

\* Mutant of StartTask: the queue starts the task enqueued last.
StartTask_Last ==
    /\ MicrotaskReady
    /\ attemptWorkerRequest(queue[Len(queue)], 0)
    /\ queue' = SubSeq(queue, 1, Len(queue) - 1)
    /\ UNCHANGED <<recycleRun, isClosing, consecutiveRecycles, lastRequestId, settled, closePc>>
    /\ UNCHANGED <<syncVars, searchVars, httpVars, cmdVars, serveVars, msync, watchCmd>>

\* The queue starts its next task: the first attempt of sendToWorkerUnqueued.
StartTask ==
    /\ MicrotaskReady
    /\ attemptWorkerRequest(Head(queue), 0)
    /\ queue' = Tail(queue)
    /\ UNCHANGED <<recycleRun, isClosing, consecutiveRecycles, lastRequestId, settled, closePc>>
    /\ UNCHANGED <<syncVars, searchVars, httpVars, cmdVars, serveVars, msync, watchCmd>>

\* The 500 ms back-off is over: the second attempt.
RetryAttempt ==
    /\ ~MicrotaskReady
    /\ running.phase = "backoff"
    /\ attemptWorkerRequest(running.req, running.attempt + 1)
    /\ UNCHANGED <<recycleRun, isClosing, queue, consecutiveRecycles, lastRequestId, settled, closePc>>
    /\ UNCHANGED <<syncVars, searchVars, httpVars, cmdVars, serveVars, msync, watchCmd>>

\* The worker answers a posted message; a worker whose listeners were removed
\* is not heard.
WorkerReply(w, id, error, rss) ==
    /\ ~MicrotaskReady
    /\ wstate[w] = "alive"
    /\ id \in inbox[w]
    /\ inbox' = [inbox EXCEPT ![w] = @ \ {id}]
    /\ WmAssign(IF wlisten[w]
                THEN NoteRecycle(handleMessage(WmState, id, error, rss), running.req,
                                 id \in pendingRequests)
                ELSE WmState)
    /\ UNCHANGED <<isClosing, queue, nextId, closePc>>
    /\ UNCHANGED <<syncVars, searchVars, httpVars, cmdVars, serveVars, msync, watchCmd>>

\* The timer of attempt `id` fires (it is cleared whenever the entry is removed).
Timeout(id) ==
    /\ ~MicrotaskReady
    /\ id \in pendingRequests
    /\ WmAssign(NoteRecycle(
           recycleWorker(
               SettleAttempt([WmState EXCEPT !.pendingRequests = @ \ {id}], id, FALSE), 0),
           running.req, FALSE))
    /\ UNCHANGED <<isClosing, queue, inbox, nextId, closePc>>
    /\ UNCHANGED <<syncVars, searchVars, httpVars, cmdVars, serveVars, msync, watchCmd>>

\* The worker's "error" event.
WorkerError(w) ==
    /\ ~MicrotaskReady
    /\ wstate[w] = "alive"
    /\ wlisten[w]
    /\ WmAssign([rejectAll(WmState) EXCEPT !.wstate[w] = "crashed"])
    /\ UNCHANGED <<isClosing, queue, inbox, nextId, closePc>>
    /\ UNCHANGED <<syncVars, searchVars, httpVars, cmdVars, serveVars, msync, watchCmd>>

\* The worker's "exit" event with its exit code.
WorkerExit(w, code) ==
    /\ ~MicrotaskReady
    /\ \/ wstate[w] = "crashed" /\ code # 0
       \/ wstate[w] = "alive"
    /\ LET s1 == IF wlisten[w] /\ ~isClosing /\ code # 0 THEN rejectAll(WmState) ELSE WmState
           s2 == IF wlisten[w] THEN [s1 EXCEPT !.worker = 0] ELSE s1
       IN  WmAssign([s2 EXCEPT !.wstate[w] = "exited", !.wlisten[w] = FALSE])
    /\ inbox' = [inbox EXCEPT ![w] = {}]
    /\ UNCHANGED <<isClosing, queue, nextId, closePc>>
    /\ UNCHANGED <<syncVars, searchVars, httpVars, cmdVars, serveVars, msync, watchCmd>>

\* oldWorker.terminate() of recycleWorker completes.  Nothing the queue reads
\* is touched, so the step is not ordered with the queue's microtask.
TerminateDone(w) ==
    /\ wstate[w] = "terminating"
    /\ wstate' = [wstate EXCEPT ![w] = "exited"]
    /\ inbox' = [inbox EXCEPT ![w] = {}]
    /\ UNCHANGED <<recycleRun, worker, pendingRequests, isClosing, queue, consecutiveRecycles,
                   lastRequestId, running, settled, wlisten, nextId, closePc>>
    /\ UNCHANGED <<syncVars, searchVars, httpVars, cmdVars, serveVars, msync, watchCmd>>

\* close(): isClosing is set and the queue awaited.
Close ==
    /\ closePc = "idle"
    /\ isClosing' = TRUE
    /\ closePc' = "draining"
    /\ UNCHANGED <<recycleRun, worker, pendingRequests, queue, consecutiveRecycles, lastRequestId,
                   running, settled, wstate, wlisten, inbox, nextId>>
    /\ UNCHANGED <<syncVars, searchVars, httpVars, cmdVars, serveVars, msync, watchCmd>>

\* Mutant of ClosePostShutdown: the shutdown message is posted without awaiting
\* the queue.
ClosePostShutdown_NoDrain ==
    /\ ~MicrotaskReady
    /\ closePc = "draining"
    /\ closePc' = "posted"
    /\ UNCHANGED <<recycleRun, worker, pendingRequests, isClosing, queue, consecutiveRecycles,
                   lastRequestId, running, settled, wstate, wlisten, inbox, nextId>>
    /\ UNCHANGED <<syncVars, searchVars, httpVars, cmdVars, serveVars, msync, watchCmd>>

\* close(): the queue has settled; the shutdown message is posted.
ClosePostShutdown ==
    /\ ~MicrotaskReady
    /\ closePc = "draining"
    /\ running = NoTask /\ queue = <<>>
    /\ closePc' = "posted"
    /\ UNCHANGED <<recycleRun, worker, pendingRequests, isClosing, queue, consecutiveRecycles,
                   lastRequestId, running, settled, wstate, wlisten, inbox, nextId>>
    /\ UNCHANGED <<syncVars, searchVars, httpVars, cmdVars, serveVars, msync, watchCmd>>

\* close(): after 100 ms the worker is terminated and the fields are reset.
CloseTerminate ==
    /\ ~MicrotaskReady
    /\ closePc = "posted"
    /\ closePc' = "closed"
    /\ worker' = 0
    /\ pendingRequests' = {}
    /\ queue' = <<>>
    /\ wstate' = IF worker # 0 THEN [wstate EXCEPT ![worker] = "exited"] ELSE wstate
    /\ wlisten' = IF worker # 0 THEN [wlisten EXCEPT ![worker] = FALSE] ELSE wlisten
    /\ inbox' = IF worker # 0 THEN [inbox EXCEPT ![worker] = {}] ELSE inbox
    /\ UNCHANGED <<recycleRun, isClosing, consecutiveRecycles, lastRequestId, running, settled, nextId>>
    /\ UNCHANGED <<syncVars, searchVars, httpVars, cmdVars, serveVars, msync, watchCmd>>

InitWM ==
    /\ worker = 0
    /\ pendingRequests = {}
    /\ isClosing = FALSE
    /\ queue = <<>>
    /\ consecutiveRecycles = 0
    /\ lastRequestId = 0
    /\ running = NoTask
    /\ settled = [r \in Requests |-> "new"]
    /\ wstate = [w \in WorkerIds |-> "unborn"]
    /\ wlisten = [w \in WorkerIds |-> FALSE]
    /\ inbox = [w \in WorkerIds |-> {}]
    /\ nextId = 1
    /\ closePc = "idle"
    /\ recycleRun = [req |-> 0, n |-> 0]


(***************************************************************************)
(* Part 2.  Index store, MetaStore, sync orchestrator and watcher          *)
(* (src/src/utils.ts, src/unnamed/part_008, src/unnamed/part_002,          *)
(*  src/src/lib/file.ts, src/src/commands/search.ts)                       *)
(***************************************************************************)

\* Bounds of the sync model.
MaxRuns == 2
MaxFsChanges == 1
MaxFaults == 2

\* Program constants.
BATCH_SIZE == 16
WRITE_BATCH_SIZE == 50
META_SAVE_EVERY == 50

Paths == {"a", "b", ".c"}
PathOrder == <<"a", "b", ".c">>
HiddenPaths == {".c"}
IgnorablePaths == {"b"}
Absent == "absent"
Contents == {"e", "s", "l"}
NoHash == <<"undefined", "">>
CpuCounts == {2, 4}

\* The contents a path of the model takes on disk.
ContentsOf(p) ==
    CASE p = "a" -> {"s", "l"}
      [] p = "b" -> {"e", "s"}
      [] OTHER -> {"s"}

\* The number of chunks TreeSitterChunker.chunk yields for a content: none for
\* an empty file, one for a small file, more than one write batch for a large one.
NChunks(c) ==
    CASE c = "e" -> 0
      [] c = "s" -> 1
      [] OTHER -> WRITE_BATCH_SIZE + 1

\* computeBufferHash: SHA-256 of the bytes, injective on the model's contents.
computeBufferHash(c) == <<"sha256", c>>

HashValues == {computeBufferHash(c) : c \in Contents}
EmptyRows == [h \in HashValues |-> 0]
NoMeta == [p \in Paths |-> NoHash]

\* table.add(rows): n rows of hash h are appended.
tableAdd(r, h, n) == [r EXCEPT ![h] = @ + n]

\* The rows a complete upload of content c leaves for its path.
FullRows(c) == tableAdd(EmptyRows, computeBufferHash(c), NChunks(c))

\* Mutant of metaStoreSet: the entry is not recorded.
metaStoreSet_Drop(md, p, h) == md

\* MetaStore.set.
metaStoreSet(md, p, h) == [md EXCEPT ![p] = h]

\* Mutant of metaStoreDelete: the entry is kept.
metaStoreDelete_Keep(md, p) == md

\* MetaStore.delete.
metaStoreDelete(md, p) == [md EXCEPT ![p] = NoHash]

Min(x, y) == IF x < y THEN x ELSE y

\* NodeFileSystem.isHiddenFile.
isHiddenFile(p) == p \in HiddenPaths

\* NodeFileSystem.isIgnored: hidden, or a custom pattern, or .gitignore.
isIgnored(p) == isHiddenFile(p) \/ p \in customIgnored \/ p \in gitIgnored

\* isIndexablePath of the watcher: every path of the model has an indexable name.
isIndexablePath(p) == p \in Paths

\* An upload in progress: the position of LocalStore.uploadFile inside the
\* attempt of utils.indexFile, with the rows its path had when it began.
NoJob == [path |-> "", content |-> "", attempt |-> 0, pc |-> "none", i |-> 0, pw |-> 0,
          before |-> EmptyRows]

NewJob(p, c, attempt, before) ==
    [path |-> p, content |-> c, attempt |-> attempt, pc |-> "delete", i |-> 0, pw |-> 0,
     before |-> before]

\* One awaited step of LocalStore.uploadFile on the rows r of the job's path:
\* the delete of the old rows, then per batch of BATCH_SIZE texts the embedding
\* with the flush of WRITE_BATCH_SIZE pending rows, then the final add.
uploadFile(job, r, ok) ==
    LET h == computeBufferHash(job.content)
        n == NChunks(job.content)
    IN  IF ~ok THEN [job |-> job, rows |-> r, status |-> "fail"]
        ELSE IF job.pc = "delete" THEN
            [job |-> [job EXCEPT !.pc = "embed", !.i = 0, !.pw = 0],
             rows |-> EmptyRows, status |-> "more"]
        ELSE IF job.pc = "embed" THEN
            IF n = 0 THEN [job |-> job, rows |-> r, status |-> "ok"]
            ELSE
                LET len == Min(BATCH_SIZE, n - job.i)
                    pw1 == job.pw + len
                    flush == pw1 >= WRITE_BATCH_SIZE
                    r1 == IF flush THEN tableAdd(r, h, WRITE_BATCH_SIZE) ELSE r
                    pw2 == IF flush THEN pw1 - WRITE_BATCH_SIZE ELSE pw1
                    i2 == job.i + BATCH_SIZE
                IN  IF i2 < n THEN
                        [job |-> [job EXCEPT !.i = i2, !.pw = pw2], rows |-> r1,
                         status |-> "more"]
                    ELSE IF pw2 > 0 THEN
                        [job |-> [job EXCEPT !.pc = "add", !.i = i2, !.pw = pw2],
                         rows |-> r1, status |-> "more"]
                    ELSE [job |-> job, rows |-> r1, status |-> "ok"]
        ELSE [job |-> job, rows |-> tableAdd(r, h, job.pw), status |-> "ok"]

\* utils.indexFile's store write: store.indexFile, and once more when the first
\* call throws; the second failure is thrown to the caller.
storeIndexFile(job, r, ok) ==
    LET u == uploadFile(job, r, ok)
    IN  IF u.status = "fail" /\ job.attempt = 1
        THEN [job |-> NewJob(job.path, job.content, 2, job.before), rows |-> r,
              status |-> "more"]
        ELSE u

\* A file pipeline of initialSync.
NoPipe == [pc |-> "none", job |-> NoJob, result |-> ""]
QueuedPipe == [pc |-> "queued", job |-> NoJob, result |-> ""]
DonePipe(result, job) == [pc |-> "done", job |-> job, result |-> result]

\* Math.max(1, Math.floor(os.cpus().length / 2)).
Concurrency == IF cpus \div 2 >= 1 THEN cpus \div 2 ELSE 1

ActivePipes(pp) == {p \in Paths : pp[p].pc \in {"reading", "upload"}}

\* pLimit: queued pipelines are started in the order of the walk while fewer
\* than `concurrency` are active.
RECURSIVE pLimitFill(_)
pLimitFill(pp) ==
    LET queued == {i \in 1..Len(PathOrder) : pp[PathOrder[i]].pc = "queued"}
    IN  IF queued = {} \/ Cardinality(ActivePipes(pp)) >= Concurrency THEN pp
        ELSE LET i == CHOOSE x \in queued : \A y \in queued : x <= y
             IN  pLimitFill([pp EXCEPT ![PathOrder[i]].pc = "reading"])

\* Mutant of RepoFiles: the ignore filter is not applied to the walk.
RepoFiles_NoFilter == {p \in Paths : disk[p] # Absent}

\* initialSync's repoFiles: the files of the walk the ignore filter lets through.
RepoFiles == {p \in Paths : disk[p] # Absent /\ ~isIgnored(p)}

\* The paths store.listFiles yields.
DbPaths == {p \in Paths : rows[p] # EmptyRows}

\* initialSync's stalePaths: dbPaths without diskPaths.
StalePaths == DbPaths \ RepoFiles

HistInit ==
    [runs |-> 0, fsChanges |-> 0, faults |-> 0, indexOps |-> 0, fileFailed |-> FALSE,
     prev |-> "none", stable |-> 0, staleFailed |-> {},
     onProgress |-> [p \in Paths |-> 0]]

\* An awaited operation may fail while the fault budget lasts.
Fault(ok) == ok \/ hist.faults < MaxFaults

Charge(h, ok) == IF ok THEN h ELSE [h EXCEPT !.faults = @ + 1]

NoPipes == [p \in Paths |-> NoPipe]

\* initialSync up to the stale deletes: the store scan, the walk with the
\* ignore filter, stalePaths; without stale paths to delete, the walk's
\* pipelines are handed to pLimit at once.
SyncBegin(dry) ==
    LET stale == StalePaths
        queued == [p \in Paths |-> IF p \in RepoFiles THEN QueuedPipe ELSE NoPipe]
        toDelete == stale # {} /\ ~dry
    IN  /\ stalePaths' = stale
        /\ initialDbCount' = Cardinality(DbPaths)
        /\ storeIsEmpty' = (DbPaths = {})
        /\ stalePending' = IF toDelete THEN stale ELSE {}
        /\ syncPc' = IF toDelete THEN "stale" ELSE "walk"
        /\ pipe' = IF toDelete THEN queued ELSE pLimitFill(queued)
        /\ total' = IF toDelete THEN 0 ELSE Cardinality(RepoFiles)
        /\ processed' = 0
        /\ indexed' = 0
        /\ indexCalls' = <<>>

\* The index command or the search command with --sync (or on an empty store)
\* is started: a fresh MetaStore is loaded from meta.json by initialSync.
StartCli(dry) ==
    /\ proc = "none"
    /\ hist.runs < MaxRuns
    /\ proc' = "cli"
    /\ dryRun' = dry
    /\ aborted' = FALSE
    /\ metaData' = metaFile
    /\ SyncBegin(dry)
    /\ hist' = [hist EXCEPT !.runs = @ + 1, !.indexOps = 0, !.fileFailed = FALSE,
                            !.stable = Min(@ + 1, MaxRuns), !.staleFailed = {},
                            !.onProgress = [p \in Paths |-> 0]]
    /\ UNCHANGED <<fsVars, rows, metaFile, watchVars>>
    /\ UNCHANGED <<wmVars, searchVars, httpVars, cmdVars, serveVars, msync, watchCmd>>

\* One stale delete of the Promise.all settles: store.deleteFile, and on
\* success metaStore.delete; an error is swallowed.
StaleDelete(p, ok) ==
    /\ syncPc = "stale"
    /\ p \in stalePending
    /\ Fault(ok)
    /\ stalePending' = stalePending \ {p}
    /\ IF ok
       THEN /\ rows' = [rows EXCEPT ![p] = EmptyRows]
            /\ metaData' = metaStoreDelete(metaData, p)
            /\ hist' = hist
       ELSE /\ UNCHANGED <<rows, metaData>>
            /\ hist' = [Charge(hist, ok) EXCEPT !.staleFailed = @ \cup {p}]
    /\ UNCHANGED <<fsVars, metaFile, procVars, watchVars>>
    /\ UNCHANGED <<syncPc, storeIsEmpty, initialDbCount, stalePaths, pipe, processed,
                   indexed, total, indexCalls>>
    /\ UNCHANGED <<wmVars, searchVars, httpVars, cmdVars, serveVars, msync, watchCmd>>

\* After the stale deletes: metaStore.save(), storeIsEmpty is recomputed from
\* initialDbCount - stalePaths.length, and the pipelines are handed to pLimit.
\* A failing save rejects initialSync.
StaleSave(ok) ==
    /\ syncPc = "stale"
    /\ stalePending = {}
    /\ Fault(ok)
    /\ hist' = Charge(hist, ok)
    /\ IF ok
       THEN /\ metaFile' = metaData
            /\ syncPc' = "walk"
            /\ storeIsEmpty' = IF ~dryRun /\ ~storeIsEmpty
                               THEN initialDbCount - Cardinality(stalePaths) <= 0
                               ELSE storeIsEmpty
            /\ total' = Cardinality({p \in Paths : pipe[p].pc = "queued"})
            /\ pipe' = pLimitFill(pipe)
       ELSE /\ syncPc' = "failed"
            /\ UNCHANGED <<metaFile, storeIsEmpty, total, pipe>>
    /\ UNCHANGED <<fsVars, rows, metaData, procVars, watchVars>>
    /\ UNCHANGED <<initialDbCount, stalePaths, stalePending, processed, indexed, indexCalls>>
    /\ UNCHANGED <<wmVars, searchVars, httpVars, cmdVars, serveVars, msync, watchCmd>>

\* PipeRead with a catch block that reports no progress.
PipeRead_SilentCatch(p, ok) ==
    /\ syncPc = "walk"
    /\ pipe[p].pc = "reading"
    /\ Fault(ok)
    /\ disk[p] = Absent => ok
    /\ LET c == disk[p]
           failed == ~ok \/ c = Absent
           hash == computeBufferHash(c)
           existingHash == metaData[p]
           shouldIndex == storeIsEmpty \/ existingHash = NoHash \/ existingHash # hash
           start == ~failed /\ ~dryRun /\ shouldIndex /\ metaData[p] # hash
           result == IF failed THEN "error"
                     ELSE IF dryRun /\ shouldIndex THEN "wouldIndex"
                     ELSE IF shouldIndex THEN "skipped"
                     ELSE "unchanged"
       IN  /\ processed' = IF failed THEN processed ELSE processed + 1
           /\ indexed' = IF ~failed /\ dryRun /\ shouldIndex THEN indexed + 1 ELSE indexed
           /\ pipe' = IF start
                      THEN [pipe EXCEPT ![p] = [pc |-> "upload",
                                                job |-> NewJob(p, c, 1, rows[p]),
                                                result |-> ""]]
                      ELSE pLimitFill([pipe EXCEPT ![p] = DonePipe(result, NoJob)])
           /\ hist' = [Charge(hist, ok) EXCEPT !.indexOps = IF start THEN @ + 1 ELSE @,
                                               !.fileFailed = @ \/ failed,
                                               !.onProgress[p] = IF start \/ failed THEN @ ELSE @ + 1]
    /\ UNCHANGED <<fsVars, storeVars, procVars, watchVars>>
    /\ UNCHANGED <<syncPc, storeIsEmpty, initialDbCount, stalePaths, stalePending, total,
                   indexCalls>>
    /\ UNCHANGED <<wmVars, searchVars, httpVars, cmdVars, serveVars, msync, watchCmd>>

\* A pipeline's readFile settles: the hash is compared with the MetaStore's,
\* a dry run counts the file, and otherwise utils.indexFile is entered, which
\* returns false when the MetaStore already holds the hash and else makes its
\* first store.indexFile call.
PipeRead(p, ok) ==
    /\ syncPc = "walk"
    /\ pipe[p].pc = "reading"
    /\ Fault(ok)
    /\ disk[p] = Absent => ok
    /\ LET c == disk[p]
           failed == ~ok \/ c = Absent
           hash == computeBufferHash(c)
           existingHash == metaData[p]
           shouldIndex == storeIsEmpty \/ existingHash = NoHash \/ existingHash # hash
           start == ~failed /\ ~dryRun /\ shouldIndex /\ metaData[p] # hash
           result == IF failed THEN "error"
                     ELSE IF dryRun /\ shouldIndex THEN "wouldIndex"
                     ELSE IF shouldIndex THEN "skipped"
                     ELSE "unchanged"
       IN  /\ processed' = IF failed THEN processed ELSE processed + 1
           /\ indexed' = IF ~failed /\ dryRun /\ shouldIndex THEN indexed + 1 ELSE indexed
           /\ pipe' = IF start
                      THEN [pipe EXCEPT ![p] = [pc |-> "upload",
                                                job |-> NewJob(p, c, 1, rows[p]),
                                                result |-> ""]]
                      ELSE pLimitFill([pipe EXCEPT ![p] = DonePipe(result, NoJob)])
           /\ hist' = [Charge(hist, ok) EXCEPT !.indexOps = IF start THEN @ + 1 ELSE @,
                                               !.fileFailed = @ \/ failed,
                                               !.onProgress[p] = IF start THEN @ ELSE @ + 1]
    /\ UNCHANGED <<fsVars, storeVars, procVars, watchVars>>
    /\ UNCHANGED <<syncPc, storeIsEmpty, initialDbCount, stalePaths, stalePending, total,
                   indexCalls>>
    /\ UNCHANGED <<wmVars, searchVars, httpVars, cmdVars, serveVars, msync, watchCmd>>

\* An awaited step of a pipeline's store write settles.  On success of the
\* whole write utils.indexFile sets the MetaStore entry and initialSync counts
\* the file, saving the MetaStore without awaiting at every 50th; on the second
\* failure the pipeline's catch swallows the error.
PipeUpload(p, ok) ==
    /\ syncPc = "walk"
    /\ pipe[p].pc = "upload"
    /\ Fault(ok)
    /\ LET job == pipe[p].job
           u == storeIndexFile(job, rows[p], ok)
           md == metaStoreSet(metaData, p, computeBufferHash(job.content))
       IN  /\ rows' = [rows EXCEPT ![p] = u.rows]
           /\ IF u.status = "more"
              THEN /\ pipe' = [pipe EXCEPT ![p].job = u.job]
                   /\ UNCHANGED <<metaData, metaFile, indexed>>
              ELSE IF u.status = "ok"
              THEN /\ metaData' = md
                   /\ indexed' = indexed + 1
                   /\ metaFile' = IF (indexed + 1) % META_SAVE_EVERY = 0 THEN md ELSE metaFile
                   /\ pipe' = pLimitFill([pipe EXCEPT ![p] = DonePipe("indexed", NoJob)])
              ELSE /\ pipe' = pLimitFill([pipe EXCEPT ![p] = DonePipe("error", NoJob)])
                   /\ UNCHANGED <<metaData, metaFile, indexed>>
           /\ hist' = [Charge(hist, ok) EXCEPT
                          !.indexOps = IF u.job.attempt # job.attempt THEN @ + 1 ELSE @,
                          !.fileFailed = @ \/ u.status = "fail",
                          !.onProgress[p] = IF u.status = "more" THEN @ ELSE @ + 1]
    /\ UNCHANGED <<fsVars, procVars, watchVars>>
    /\ UNCHANGED <<syncPc, storeIsEmpty, initialDbCount, stalePaths, stalePending,
                   processed, total, indexCalls>>
    /\ UNCHANGED <<wmVars, searchVars, httpVars, cmdVars, serveVars, msync, watchCmd>>

PipelinesSettled == \A p \in Paths : pipe[p].pc \in {"none", "done"}

\* Mutant of FinalSave: the index rebuild follows whatever was indexed.
FinalSave_AlwaysRebuild(ok) ==
    /\ syncPc = "walk"
    /\ PipelinesSettled
    /\ Fault(ok)
    /\ dryRun => ok
    /\ hist' = Charge(hist, ok)
    /\ metaFile' = IF ~dryRun /\ ok THEN metaData ELSE metaFile
    /\ syncPc' = IF ~ok THEN "failed"
                 ELSE IF ~dryRun THEN "fts"
                 ELSE "done"
    /\ UNCHANGED <<fsVars, rows, metaData, procVars, watchVars>>
    /\ UNCHANGED <<storeIsEmpty, initialDbCount, stalePaths, stalePending, pipe, processed,
                   indexed, total, indexCalls>>
    /\ UNCHANGED <<wmVars, searchVars, httpVars, cmdVars, serveVars, msync, watchCmd>>

\* All pipelines settled: the final metaStore.save() of a run that is not dry;
\* a failing save rejects initialSync.  The index rebuild follows when files
\* were indexed.
FinalSave(ok) ==
    /\ syncPc = "walk"
    /\ PipelinesSettled
    /\ Fault(ok)
    /\ dryRun => ok
    /\ hist' = Charge(hist, ok)
    /\ metaFile' = IF ~dryRun /\ ok THEN metaData ELSE metaFile
    /\ syncPc' = IF ~ok THEN "failed"
                 ELSE IF ~dryRun /\ indexed > 0 THEN "fts"
                 ELSE "done"
    /\ UNCHANGED <<fsVars, rows, metaData, procVars, watchVars>>
    /\ UNCHANGED <<storeIsEmpty, initialDbCount, stalePaths, stalePending, pipe, processed,
                   indexed, total, indexCalls>>
    /\ UNCHANGED <<wmVars, searchVars, httpVars, cmdVars, serveVars, msync, watchCmd>>

\* store.createFTSIndex: an error of table.createIndex is caught inside.
createFTSIndex ==
    /\ syncPc = "fts"
    /\ syncPc' = "vec"
    /\ indexCalls' = Append(indexCalls, "fts")
    /\ UNCHANGED <<fsVars, storeVars, procVars, watchVars, hist>>
    /\ UNCHANGED <<storeIsEmpty, initialDbCount, stalePaths, stalePending, pipe, processed,
                   indexed, total>>
    /\ UNCHANGED <<wmVars, searchVars, httpVars, cmdVars, serveVars, msync, watchCmd>>

\* store.createVectorIndex, after which initialSync returns its counts.
createVectorIndex ==
    /\ syncPc = "vec"
    /\ syncPc' = "done"
    /\ indexCalls' = Append(indexCalls, "vec")
    /\ UNCHANGED <<fsVars, storeVars, procVars, watchVars, hist>>
    /\ UNCHANGED <<storeIsEmpty, initialDbCount, stalePaths, stalePending, pipe, processed,
                   indexed, total>>
    /\ UNCHANGED <<wmVars, searchVars, httpVars, cmdVars, serveVars, msync, watchCmd>>

\* The 10 s timer of the search command in a non-interactive run fires:
\* abortController.abort().
AbortTimer ==
    /\ proc = "cli"
    /\ ~aborted
    /\ syncPc \in {"stale", "walk", "fts", "vec"}
    /\ aborted' = TRUE
    /\ UNCHANGED <<fsVars, storeVars, proc, dryRun, syncLocals, watchVars, hist>>
    /\ UNCHANGED <<wmVars, searchVars, httpVars, cmdVars, serveVars, msync, watchCmd>>

\* The state of a process that is not running.
ProcessReset ==
    /\ proc' = "none"
    /\ dryRun' = FALSE
    /\ aborted' = FALSE
    /\ metaData' = NoMeta
    /\ syncPc' = "idle"
    /\ storeIsEmpty' = FALSE
    /\ initialDbCount' = 0
    /\ stalePaths' = {}
    /\ stalePending' = {}
    /\ pipe' = NoPipes
    /\ processed' = 0
    /\ indexed' = 0
    /\ total' = 0
    /\ indexCalls' = <<>>

\* How the run of a command ended, as the next run finds it: initialSync threw,
\* or it was a dry run, or it returned with a file pipeline having failed, or
\* it returned with none having failed.
RunOutcome ==
    IF syncPc = "failed" THEN "failed"
    ELSE IF dryRun THEN "dry"
    ELSE IF hist.fileFailed THEN "fileFailed"
    ELSE "clean"

\* The command returns after initialSync returned or threw: gracefulExit.
EndCli ==
    /\ proc = "cli"
    /\ syncPc \in {"done", "failed"}
    /\ ProcessReset
    /\ hist' = [hist EXCEPT !.prev = RunOutcome]
    /\ UNCHANGED <<fsVars, rows, metaFile, watchVars>>
    /\ UNCHANGED <<wmVars, searchVars, httpVars, cmdVars, serveVars, msync, watchCmd>>

(***************************************************************************)
(* The serve command: background initialSync and the watcher               *)
(***************************************************************************)

WRuns == 1..MaxFsChanges

NoRun == [pc |-> "idle", items |-> <<>>, job |-> NoJob, result |-> ""]

\* pending.set(path, action): a Map keeps the position of a key it holds.
pendingSet(pend, p, action) ==
    IF \E i \in 1..Len(pend) : pend[i].path = p
    THEN [i \in 1..Len(pend) |->
            IF pend[i].path = p THEN [path |-> p, action |-> action] ELSE pend[i]]
    ELSE Append(pend, [path |-> p, action |-> action])

\* The head of processPending's loop: an upsert of a path that is ignored or
\* not indexable is passed over with `continue`.
RECURSIVE nextAction(_)
nextAction(items) ==
    IF items = <<>> THEN [pc |-> "idle", items |-> <<>>]
    ELSE LET it == Head(items)
         IN  IF it.action = "delete" THEN [pc |-> "delete", items |-> items]
             ELSE IF isIgnored(it.path) \/ ~isIndexablePath(it.path)
                  THEN nextAction(Tail(items))
                  ELSE [pc |-> "read", items |-> items]

\* The run of processPending at the head of its loop over `items`.
RunAt(items, result) ==
    LET n == nextAction(items)
    IN  [pc |-> n.pc, items |-> n.items, job |-> NoJob, result |-> result]

\* The serve command is started: the MetaStore is loaded, initialSync is
\* called without await when the store is empty, and the watcher is created.
StartServe ==
    /\ proc = "none"
    /\ hist.runs < MaxRuns
    /\ proc' = "serve"
    /\ dryRun' = FALSE
    /\ aborted' = FALSE
    /\ metaData' = metaFile
    /\ IF DbPaths = {}
       THEN SyncBegin(FALSE)
       ELSE UNCHANGED syncLocals
    /\ hist' = [hist EXCEPT !.runs = @ + 1, !.indexOps = 0, !.fileFailed = FALSE,
                            !.stable = 0, !.staleFailed = {},
                            !.onProgress = [p \in Paths |-> 0]]
    /\ UNCHANGED <<fsVars, rows, metaFile, watchVars>>
    /\ UNCHANGED <<wmVars, searchVars, httpVars, cmdVars, serveVars, msync, watchCmd>>

\* chokidar's `ignored` option.
chokidarIgnored(p) == isIgnored(p)

\* A file is written, created or removed in the working tree; under serve
\* chokidar reports it and the handler records the action in `pending`.
FsChange(p, c) ==
    /\ hist.fsChanges < MaxFsChanges
    /\ c \in ContentsOf(p) \cup {Absent}
    /\ c # disk[p]
    /\ disk' = [disk EXCEPT ![p] = c]
    /\ pending' = IF proc = "serve" /\ ~chokidarIgnored(p)
                  THEN pendingSet(pending, p, IF c = Absent THEN "delete" ELSE "upsert")
                  ELSE pending
    /\ hist' = [hist EXCEPT !.fsChanges = @ + 1, !.stable = 0]
    /\ UNCHANGED <<customIgnored, gitIgnored, cpus, storeVars, procVars, syncLocals, wrun>>
    /\ UNCHANGED <<wmVars, searchVars, httpVars, cmdVars, serveVars, msync, watchCmd>>

\* The ignore rules are edited while no command runs: a path becomes matched,
\* or stops being matched, by .gitignore or by the custom patterns.
EditIgnore(p, kind) ==
    /\ proc = "none"
    /\ hist.fsChanges < MaxFsChanges
    /\ p \in IgnorablePaths
    /\ IF kind = "git"
       THEN /\ gitIgnored' = IF p \in gitIgnored THEN gitIgnored \ {p} ELSE gitIgnored \cup {p}
            /\ UNCHANGED customIgnored
       ELSE /\ customIgnored' = IF p \in customIgnored THEN customIgnored \ {p}
                                ELSE customIgnored \cup {p}
            /\ UNCHANGED gitIgnored
    /\ hist' = [hist EXCEPT !.fsChanges = @ + 1, !.stable = 0]
    /\ UNCHANGED <<disk, cpus, storeVars, procVars, syncLocals, watchVars>>
    /\ UNCHANGED <<wmVars, searchVars, httpVars, cmdVars, serveVars, msync, watchCmd>>

\* The debounce timer fires: processPending takes the pending actions, clears
\* the map and comes to the head of its loop.
WatcherFire(k) ==
    /\ proc = "serve"
    /\ pending # <<>>
    /\ wrun[k].pc = "idle"
    /\ \A j \in WRuns : j < k => wrun[j].pc # "idle"
    /\ wrun' = [wrun EXCEPT ![k] = RunAt(pending, "")]
    /\ pending' = <<>>
    /\ UNCHANGED <<fsVars, storeVars, procVars, syncLocals, hist>>
    /\ UNCHANGED <<wmVars, searchVars, httpVars, cmdVars, serveVars, msync, watchCmd>>

\* A delete action: store.deleteFile settles; on success metaStore.delete
\* follows and metaStore.save() is awaited, on failure the error is logged.
WatcherDelete(k, ok) ==
    /\ wrun[k].pc = "delete"
    /\ Fault(ok)
    /\ LET p == Head(wrun[k].items).path
       IN  IF ok
           THEN /\ rows' = [rows EXCEPT ![p] = EmptyRows]
                /\ metaData' = metaStoreDelete(metaData, p)
                /\ wrun' = [wrun EXCEPT ![k].pc = "save"]
           ELSE /\ wrun' = [wrun EXCEPT ![k] = RunAt(Tail(wrun[k].items), "error")]
                /\ UNCHANGED <<rows, metaData>>
    /\ hist' = Charge(hist, ok)
    /\ UNCHANGED <<fsVars, metaFile, procVars, syncLocals, pending>>
    /\ UNCHANGED <<wmVars, searchVars, httpVars, cmdVars, serveVars, msync, watchCmd>>

\* The metaStore.save() of a delete action settles.
WatcherSave(k, ok) ==
    /\ wrun[k].pc = "save"
    /\ Fault(ok)
    /\ metaFile' = IF ok THEN metaData ELSE metaFile
    /\ wrun' = [wrun EXCEPT ![k] = RunAt(Tail(wrun[k].items), IF ok THEN "deleted" ELSE "error")]
    /\ hist' = Charge(hist, ok)
    /\ UNCHANGED <<fsVars, rows, metaData, procVars, syncLocals, pending>>
    /\ UNCHANGED <<wmVars, searchVars, httpVars, cmdVars, serveVars, msync, watchCmd>>

\* An upsert action: readFile settles; an empty file is passed over, and
\* utils.indexFile returns false when the MetaStore already holds the hash and
\* else makes its first store.indexFile call.
WatcherRead(k, ok) ==
    /\ wrun[k].pc = "read"
    /\ Fault(ok)
    /\ LET p == Head(wrun[k].items).path
           c == disk[p]
           failed == ~ok \/ c = Absent
           start == ~failed /\ c # "e" /\ metaData[p] # computeBufferHash(c)
       IN  /\ c = Absent => ok
           /\ wrun' = IF start
                      THEN [wrun EXCEPT ![k].pc = "upload",
                                        ![k].job = NewJob(p, c, 1, rows[p])]
                      ELSE [wrun EXCEPT ![k] = RunAt(Tail(wrun[k].items),
                                                     IF failed THEN "error" ELSE "skipped")]
           /\ hist' = [Charge(hist, ok) EXCEPT !.indexOps = IF start THEN @ + 1 ELSE @]
    /\ UNCHANGED <<fsVars, storeVars, procVars, syncLocals, pending>>
    /\ UNCHANGED <<wmVars, searchVars, httpVars, cmdVars, serveVars, msync, watchCmd>>

\* An awaited step of an upsert's store write settles.  On success
\* utils.indexFile sets the MetaStore entry; the boolean it returns has no
\* `indexed` property, so the handler's save is not reached.
WatcherUpload(k, ok) ==
    /\ wrun[k].pc = "upload"
    /\ Fault(ok)
    /\ LET job == wrun[k].job
           p == job.path
           u == storeIndexFile(job, rows[p], ok)
       IN  /\ rows' = [rows EXCEPT ![p] = u.rows]
           /\ IF u.status = "more"
              THEN /\ wrun' = [wrun EXCEPT ![k].job = u.job]
                   /\ UNCHANGED metaData
              ELSE IF u.status = "ok"
              THEN /\ metaData' = metaStoreSet(metaData, p, computeBufferHash(job.content))
                   /\ wrun' = [wrun EXCEPT ![k] = RunAt(Tail(wrun[k].items), "indexed")]
              ELSE /\ wrun' = [wrun EXCEPT ![k] = RunAt(Tail(wrun[k].items), "error")]
                   /\ UNCHANGED metaData
           /\ hist' = [Charge(hist, ok) EXCEPT
                          !.indexOps = IF u.job.attempt # job.attempt THEN @ + 1 ELSE @]
    /\ UNCHANGED <<fsVars, metaFile, procVars, syncLocals, pending>>
    /\ UNCHANGED <<wmVars, searchVars, httpVars, cmdVars, serveVars, msync, watchCmd>>

\* SIGINT or SIGTERM: the process ends wherever it is.
Shutdown ==
    /\ proc # "none"
    /\ ~(proc = "cli" /\ syncPc \in {"done", "failed"})
    /\ ProcessReset
    /\ pending' = <<>>
    /\ wrun' = [k \in WRuns |-> NoRun]
    /\ hist' = [hist EXCEPT !.prev = "killed"]
    /\ UNCHANGED <<fsVars, rows, metaFile>>
    /\ UNCHANGED <<wmVars, searchVars, httpVars, cmdVars, serveVars, msync, watchCmd>>

InitSyncAt(ignored, n) ==
    /\ disk = [p \in Paths |-> "s"]
    /\ customIgnored = {}
    /\ gitIgnored = ignored
    /\ cpus = n
    /\ rows = [p \in Paths |-> EmptyRows]
    /\ metaFile = NoMeta
    /\ metaData = NoMeta
    /\ proc = "none"
    /\ dryRun = FALSE
    /\ aborted = FALSE
    /\ syncPc = "idle"
    /\ storeIsEmpty = FALSE
    /\ initialDbCount = 0
    /\ stalePaths = {}
    /\ stalePending = {}
    /\ pipe = NoPipes
    /\ processed = 0
    /\ indexed = 0
    /\ total = 0
    /\ indexCalls = <<>>
    /\ pending = <<>>
    /\ wrun = [k \in WRuns |-> NoRun]
    /\ hist = HistInit

InitSync == \E ignored \in {{}, IgnorablePaths}, n \in CpuCounts : InitSyncAt(ignored, n)

InitSearch ==
    /\ table = <<>>
    /\ request = [top_k |-> 0, perFile |-> 0, pathFilter |-> <<>>, rerank |-> "none"]
    /\ results = <<>>

\* The server listens: no request yet.  The header and the body path are
\* strings, as sequences of characters; `present` is false for undefined.
NotANumber == -1
NoAuth == [present |-> FALSE, value |-> <<>>]
NoReq == [auth |-> NoAuth, method |-> "GET", url |-> "/health", declared |-> NotANumber]
\* body.filters when it is not an object, and the filters before a search.
NoFilters == [isObject |-> FALSE, all |-> <<>>]
NoBody ==
    [valid |-> FALSE, query |-> "", pathIsString |-> FALSE, path |-> <<>>, filters |-> NoFilters]

\* The serve action has not reached its store yet.
NoBg == [pc |-> "unstarted", done |-> 0, processed |-> 0, indexed |-> 0, total |-> 0]

InitHttp ==
    /\ hreq = NoReq
    /\ hpc = "idle"
    /\ body = NoBody
    /\ receivedBytes = 0
    /\ rejected = FALSE
    /\ nchunks = 0
    /\ responses = <<>>
    /\ storeQueries = 0
    /\ isIndexing = FALSE
    /\ progress = [indexed |-> 0, processed |-> 0, total |-> 0]
    /\ bg = NoBg
    /\ sentProgress = <<>>
    /\ sentStatus = <<>>
    /\ filters = NoFilters

NoCmd == [kind |-> "none", dryRun |-> FALSE, sync |-> FALSE, isTTY |-> FALSE, exec_path |-> <<>>]

NoCalls == [initialSync |-> 0, getInfo |-> 0, search |-> 0, close |-> 0]

NoFilter == <<"none">>

InitCmd ==
    /\ cmd = NoCmd
    /\ cmdPc = "idle"
    /\ cstore = "null"
    /\ calls = NoCalls
    /\ autoSync = FALSE
    /\ didSync = FALSE
    /\ spinner = "none"
    /\ exitCode = 0
    /\ queryFilter = NoFilter
    /\ thrown = FALSE
    /\ cmdRuns = 0

MaxServers == 3
MaxTime == 8

Pids == 1..MaxServers

\* Date.now() of the first process start, in units of 100 s.
StartTime == 4

NoProc == [pc |-> "unborn", monitor |-> FALSE, timer |-> FALSE, writePending |-> FALSE,
           lastMemoryWarning |-> 0, child |-> 0]

InitServe ==
    /\ procs = [p \in Pids |-> NoProc]
    /\ portOwner = 0
    /\ lockPid = 0
    /\ now = StartTime
    /\ warnings = [p \in Pids |-> <<>>]

\* The periodic saves in flight, by their stage: awaiting mkdir, or writing a
\* snapshot that equals the MetaStore's map (fresh) or precedes a later set
\* (stale).
NoFlying == [mkdir |-> 0, fresh |-> 0, stale |-> 0]

\* onDisk: meta.json holds what the MetaStore's map holds.
NoSync ==
    [pc |-> "idle", dryRun |-> FALSE, skip |-> FALSE, limit |-> 1, hadStale |-> FALSE,
     staleLeft |-> 0, queued |-> 0, active |-> 0, indexed |-> 0, saves |-> <<>>,
     flying |-> NoFlying, onDisk |-> TRUE]

InitMeta == msync = NoSync

\* The watch command has attached its handlers: no timer is set.
NoWatch ==
    [debounceTimers |-> {}, events |-> [p \in Paths |-> <<>>],
     ingest |-> [p \in Paths |-> <<>>], count |-> 0]

InitWatch == watchCmd = NoWatch

Init ==
    InitWM /\ InitSync /\ InitSearch /\ InitHttp /\ InitCmd /\ InitServe /\ InitMeta /\ InitWatch

\* One initial state: no .gitignore rule, two CPUs.
InitQuiet ==
    InitWM /\ InitSyncAt({}, 2) /\ InitSearch /\ InitHttp /\ InitCmd /\ InitServe /\ InitMeta
           /\ InitWatch

NextSync ==
    \/ \E dry \in BOOLEAN : StartCli(dry)
    \/ \E p \in Paths, ok \in BOOLEAN : StaleDelete(p, ok)
    \/ \E ok \in BOOLEAN : StaleSave(ok)
    \/ \E p \in Paths, ok \in BOOLEAN : PipeRead(p, ok)
    \/ \E p \in Paths, ok \in BOOLEAN : PipeUpload(p, ok)
    \/ \E ok \in BOOLEAN : FinalSave(ok)
    \/ createFTSIndex
    \/ createVectorIndex
    \/ AbortTimer
    \/ EndCli
    \/ StartServe
    \/ \E p \in Paths, c \in Contents \cup {Absent} : FsChange(p, c)
    \/ \E p \in Paths, kind \in {"git", "custom"} : EditIgnore(p, kind)
    \/ \E k \in WRuns : WatcherFire(k)
    \/ \E k \in WRuns, ok \in BOOLEAN : WatcherDelete(k, ok)
    \/ \E k \in WRuns, ok \in BOOLEAN : WatcherSave(k, ok)
    \/ \E k \in WRuns, ok \in BOOLEAN : WatcherRead(k, ok)
    \/ \E k \in WRuns, ok \in BOOLEAN : WatcherUpload(k, ok)
    \/ Shutdown

Spec == Init /\ [][NextSync]_vars

(***************************************************************************)
(* Properties of the index store and the sync                              *)
(***************************************************************************)

\* A pipeline of initialSync finishes the store write of p successfully in this step.
SyncIndexed(p) ==
    /\ pipe[p].pc = "upload"
    /\ pipe'[p].pc = "done"
    /\ pipe'[p].result = "indexed"

\* Run k of processPending finishes the store write of p successfully in this step.
WatcherIndexed(k, p) ==
    /\ wrun[k].pc = "upload"
    /\ wrun[k].job.path = p
    /\ wrun'[k].pc # "upload"
    /\ wrun'[k].result = "indexed"

\* The rows of p all carry hash h (or there are none).
OnlyHash(r, h) == \A g \in HashValues : r[g] > 0 => g = h

\* C2: after any successful re-index of a path p, by the sync or by the
\* watcher, every store row of p carries the hash of the content that was
\* indexed: either all rows of a path reflect the same hash or none exist.
C2_OneHashAfterReindex ==
    [][\A p \in Paths :
          /\ SyncIndexed(p) => OnlyHash(rows'[p], computeBufferHash(pipe[p].job.content))
          /\ \A k \in WRuns :
                WatcherIndexed(k, p) =>
                    OnlyHash(rows'[p], computeBufferHash(wrun[k].job.content))]_vars

\* C3: a reader that observes the store while a file p is being re-indexed
\* sees for p either the complete old row set or the complete new row set,
\* never a partial set and never a union.  Stated for the index command, where
\* the pipeline is the only writer of p.
C3_OldOrNewRows ==
    \A p \in Paths :
        (proc = "cli" /\ pipe[p].pc = "upload") =>
            rows[p] \in {pipe[p].job.before, FullRows(pipe[p].job.content)}

\* C4: when the ingest of a file fails mid-pipeline, the rows the path had
\* before the attempt are still present and unchanged.  Stated for the index
\* command, where the pipeline is the only writer of p.
C4_FailedIngestKeepsRows ==
    [][\A p \in Paths :
          (proc = "cli" /\ pipe[p].pc = "upload" /\ pipe'[p].pc = "done"
                /\ pipe'[p].result = "error") =>
              rows'[p] = pipe[p].job.before]_vars

\* The sync of the running command is the second of two syncs that returned,
\* with no change of the working tree or of the ignore rules since the first began.
SecondRunOf(outcomes) ==
    /\ proc = "cli"
    /\ hist.stable >= 2
    /\ hist.prev \in outcomes

SyncReturned == proc = "cli" /\ ~dryRun /\ syncPc = "done"

Removed(p) == rows[p] = EmptyRows /\ metaData[p] = NoHash /\ metaFile[p] = NoHash

C8_MetaAgreesWithStore ==
    (proc = "cli" /\ syncPc \in {"done", "failed"}) =>
        \A p \in Paths : metaData[p] # NoHash => OnlyHash(rows[p], metaData[p])

\* C9: once the abort signal is raised, the sync starts no new file pipeline.
C9_NoPipelineStartsAfterAbort ==
    [][aborted => \A p \in Paths : ~(pipe[p].pc = "queued" /\ pipe'[p].pc = "reading")]_vars

(***************************************************************************)
(* Part 3.  LocalStore.search and the search command                       *)
(* (src/unnamed/part_008, src/src/commands/search.ts)                      *)
(***************************************************************************)

\* Bounds of the search model.
MaxRows == 3
MaxScore == 2
MaxPerFile == 2

\* Program constants.
CandidateLimit == 50
DefaultTopK == 10

\* Paths as sequences of characters, so that starts_with is a prefix test.
SearchPaths == {<<"s", "a">>, <<"s", "b">>, <<"t", "a">>}
PathFilters == {<<>>, <<"s">>}
Undefined == -1

startsWith(s, prefix) ==
    /\ Len(prefix) <= Len(s)
    /\ SubSeq(s, 1, Len(prefix)) = prefix

\* Mutant of matchesFilter: no row is filtered out.
matchesFilter_Always(r, pathFilter) == TRUE

\* matchesFilter of LocalStore.search: an empty filter matches every row.
matchesFilter(r, pathFilter) == pathFilter = <<>> \/ startsWith(r.path, pathFilter)

\* The candidates of the vector search that pass the path filter.
vectorResults(tbl, pathFilter) ==
    LET first == SubSeq(tbl, 1, Min(CandidateLimit, Len(tbl)))
        Keep(r) == matchesFilter(r, pathFilter)
    IN  SelectSeq(first, Keep)

\* Mutant of scoreOf: without the fallback to the vector order.
scoreOf_NoFallback(cands, i, rerankOk) == cands[i].rerank

\* The score of candidate i (from 1): the reranker's, or when the reranker
\* failed (limit - i) / limit by vector order, here in units of 1 / limit.
scoreOf(cands, i, rerankOk) ==
    IF rerankOk THEN cands[i].rerank ELSE CandidateLimit - (i - 1)

\* Array.prototype.sort with (a, b) => b.score - a.score: descending and stable.
RECURSIVE insertSorted(_, _)
insertSorted(sorted, x) ==
    IF sorted = <<>> THEN <<x>>
    ELSE IF Head(sorted).score >= x.score
         THEN <<Head(sorted)>> \o insertSorted(Tail(sorted), x)
         ELSE <<x>> \o sorted

RECURSIVE sortByScore(_)
sortByScore(s) ==
    IF s = <<>> THEN <<>>
    ELSE insertSorted(sortByScore(SubSeq(s, 1, Len(s) - 1)), s[Len(s)])

\* Mutant of search: without the slice to finalLimit.
search_NoSlice(tbl, top_k, pathFilter, rerankOk) ==
    LET cands == vectorResults(tbl, pathFilter)
    IN  sortByScore([i \in 1..Len(cands) |->
                        [path |-> cands[i].path, id |-> cands[i].id,
                         score |-> scoreOf(cands, i, rerankOk)]])

\* LocalStore.search: candidates, rerank with its fallback, sort, slice.
search(tbl, top_k, pathFilter, rerankOk) ==
    LET cands == vectorResults(tbl, pathFilter)
        finalLimit == IF top_k = Undefined THEN DefaultTopK ELSE top_k
        scored == [i \in 1..Len(cands) |->
                     [path |-> cands[i].path, id |-> cands[i].id,
                      score |-> scoreOf(cands, i, rerankOk)]]
        sorted == sortByScore(scored)
    IN  SubSeq(sorted, 1, Min(finalLimit, Len(sorted)))

\* A row is in the table for the query: its path, and the score the reranker
\* gives it; the table's order is the order of the vector search.
TableAdd(path, rerank) ==
    /\ Len(table) < MaxRows
    /\ table' = Append(table, [path |-> path, id |-> Len(table) + 1, rerank |-> rerank])
    /\ UNCHANGED <<request, results>>
    /\ UNCHANGED <<wmVars, syncVars, httpVars, cmdVars, serveVars, msync, watchCmd>>

\* More rows than the default top_k are in the table for the query, all of one
\* file and with one reranker score.
TableAddBlock(path, rerank) ==
    /\ table = <<>>
    /\ table' = [i \in 1..(DefaultTopK + 1) |-> [path |-> path, id |-> i, rerank |-> rerank]]
    /\ UNCHANGED <<request, results>>
    /\ UNCHANGED <<wmVars, syncVars, httpVars, cmdVars, serveVars, msync, watchCmd>>

\* The search command without a server: the options are read and store.search
\* is called with -m as top_k and the path as a starts_with filter; its data
\* is what the command prints.
SearchCommand(m, perFile, pathFilter, rerankOk) ==
    /\ request' = [top_k |-> m, perFile |-> perFile, pathFilter |-> pathFilter,
                   rerank |-> IF rerankOk THEN "ok" ELSE "failed"]
    /\ results' = search(table, m, pathFilter, rerankOk)
    /\ UNCHANGED table
    /\ UNCHANGED <<wmVars, syncVars, httpVars, cmdVars, serveVars, msync, watchCmd>>

NextSearch ==
    \/ \E path \in SearchPaths, rerank \in 1..MaxScore : TableAdd(path, rerank)
    \/ \E path \in SearchPaths, rerank \in 1..MaxScore : TableAddBlock(path, rerank)
    \/ \E m \in {Undefined} \cup 1..MaxRows, perFile \in 1..MaxPerFile, pathFilter \in PathFilters,
          rerankOk \in BOOLEAN : SearchCommand(m, perFile, pathFilter, rerankOk)

SpecSearch == InitQuiet /\ [][NextSearch]_vars

\* The number of returned rows with path p.
PerPath(res, p) == Cardinality({i \in 1..Len(res) : res[i].path = p})

\* C10: for any query and any store contents, the number of rows search
\* returns for any single path is at most the per-file cap (default 1).
C10_PerFileCap ==
    request.rerank # "none" =>
        \A p \in SearchPaths : PerPath(results, p) <= request.perFile

\* C17: the sync orchestrator and the watcher never run concurrently against
\* the same index: in the server no watcher upsert or delete is applied to the
\* store while the initial sync on that store is still in progress.
C17_NoWatcherWriteDuringSync ==
    [][(proc = "serve" /\ syncPc \in {"stale", "walk", "fts", "vec"}) =>
          ~\E k \in WRuns, ok \in BOOLEAN :
               /\ WatcherDelete(k, ok) \/ WatcherUpload(k, ok)
               /\ rows' # rows]_vars


\* The files for which a sync that is not dry, run on this store, MetaStore
\* and working tree, would call store.indexFile.
RealSyncWouldIndex ==
    {p \in RepoFiles : metaData[p] = NoHash \/ metaData[p] # computeBufferHash(disk[p])}

\* C22: a dry-run sync writes nothing: no store.deleteFile, no store.indexFile,
\* no createFTSIndex / createVectorIndex and no MetaStore set, delete or save,
\* so the store and the MetaStore stay as they are; and the indexed count it
\* returns is the number of files a real sync would have attempted to index.
C22_DryRunWritesNothing ==
    [][/\ (proc = "cli" /\ dryRun /\ proc' = "cli") =>
              /\ rows' = rows /\ metaFile' = metaFile /\ metaData' = metaData
              /\ indexCalls' = <<>> /\ hist'.indexOps = 0
       /\ (proc = "cli" /\ dryRun /\ syncPc = "done" /\ hist.stable >= 1
                /\ ~hist.fileFailed) =>
              indexed = Cardinality(RealSyncWouldIndex)]_vars


NextWM ==
    \/ \E r \in Requests : computeHybrid(r)
    \/ \E r \in Requests : encodeQuery(r)
    \/ StartTask
    \/ RetryAttempt
    \/ \E w \in WorkerIds, id \in AttemptIds, error \in BOOLEAN, rss \in RssValues :
           WorkerReply(w, id, error, rss)
    \/ \E id \in AttemptIds : Timeout(id)
    \/ \E w \in WorkerIds : WorkerError(w)
    \/ \E w \in WorkerIds, code \in {0, 1} : WorkerExit(w, code)
    \/ \E w \in WorkerIds : TerminateDone(w)
    \/ Close
    \/ ClosePostShutdown
    \/ CloseTerminate

SpecWM == InitQuiet /\ [][NextWM]_vars

\* C1: at most one request is in flight on the worker (posted and not yet
\* settled) at any time, under every interleaving of calls, replies, timeouts,
\* retries, crashes and recycles.
C1_WorkerMutex == Cardinality(pendingRequests) <= 1

\* C1 witness: a second request is queued behind one that is in flight.
C1_Witness ==
    /\ Cardinality(pendingRequests) = 1
    /\ running.phase = "await"
    /\ running.attempt = 1
    /\ Len(queue) >= 1

\* C11: when the deadline of an attempt expires, the attempt is rejected and
\* removed from the pending map, and the worker is recycled: the reference is
\* cleared and the old worker terminated, so that the next attempt spawns a
\* fresh worker.
C11_TimeoutRecyclesWorker ==
    [][\A id \in AttemptIds :
          Timeout(id) =>
              /\ id \notin pendingRequests'
              /\ running.id = id =>
                    running'.phase = "backoff" \/ settled'[running.req] = "rejected"
              /\ worker' = 0
              /\ worker # 0 => wstate'[worker] = "terminating" /\ ~wlisten'[worker]]_vars

\* C12: every request gets exactly one automatic retry: a first attempt that
\* fails (timeout, crash, error reply) is followed by a second attempt of the
\* same request, the request is rejected to the caller only when its second
\* attempt failed too, and no request is attempted more than twice.
C12_OneRetry ==
    [][/\ \A r \in Requests :
              (settled[r] = "queued" /\ settled'[r] = "rejected") =>
                  running = [req |-> r, attempt |-> MAX_RETRIES,
                             id |-> running.id, phase |-> "await"]
       /\ (running.phase = "await" /\ running.attempt = 0 /\ running' # running) =>
              \/ running' = NoTask /\ settled'[running.req] = "resolved"
              \/ running' = [running EXCEPT !.phase = "backoff", !.id = 0]
       /\ nextId' # nextId =>
              \/ /\ running = NoTask
                 /\ running'.req = Head(queue) /\ running'.attempt = 0
              \/ /\ running.phase = "backoff" /\ running.attempt = 0
                 /\ running'.req = running.req /\ running'.attempt = 1]_vars

\* C12 witness: a request was rejected after two attempts, the manager not
\* closing.
C12_Witness ==
    /\ ~isClosing
    /\ nextId = 3
    /\ running = NoTask
    /\ \E r \in Requests : settled[r] = "rejected"

C14_MemoryRecycleAfterReply ==
    [][\A w \in WorkerIds, id \in AttemptIds, error \in BOOLEAN, rss \in RssValues :
          (WorkerReply(w, id, error, rss) /\ wlisten[w] /\ id \in pendingRequests) =>
              /\ id \notin pendingRequests'
              /\ ~error => settled'[running.req] = "resolved"
              /\ IF rss > MAX_WORKER_MEMORY_MB
                 THEN (queue # <<>> \/ running'.phase = "backoff") =>
                          worker' = 0 /\ wstate'[w] = "terminating"
                 ELSE worker' = worker /\ wstate'[w] = wstate[w]]_vars

\* C15: recycling never blocks new enqueues, and while the old worker is being
\* terminated a request is never posted to it: every attempt is posted to the
\* worker the manager refers to, which is never a worker under termination and
\* is a freshly spawned one when the reference was cleared.
C15_PostsToFreshWorker ==
    [][/\ (\E w \in WorkerIds : wstate[w] = "terminating") =>
              \A r \in Requests : settled[r] = "new" => ENABLED computeHybrid(r)
       /\ nextId' # nextId =>
              /\ wstate'[worker'] \notin {"terminating", "exited"}
              /\ worker = 0 => worker' \in FreeWorkerIds
              /\ nextId \in inbox'[worker']
              /\ \A w \in WorkerIds : wstate'[w] = "terminating" => nextId \notin inbox'[w]]_vars

\* C15 witness: an attempt is in flight on a fresh worker while the worker
\* recycled before it is still being terminated.
C15_Witness ==
    /\ worker # 0
    /\ running.phase = "await"
    /\ running.id \in inbox[worker]
    /\ \E w \in WorkerIds : w # worker /\ wstate[w] = "terminating"

\* C16: close() drains the queue first: every request enqueued before close()
\* has settled when the shutdown message is posted and the worker terminated;
\* a request enqueued after close() started is rejected without reaching the
\* worker; and when close() has returned there is no worker and no pending
\* request.
C16_CloseDrainsQueue ==
    [][/\ closePc' \in {"posted", "closed"} =>
              /\ \A r \in Requests : settled'[r] # "queued"
              /\ running' = NoTask /\ queue' = <<>>
       /\ \A r \in Requests :
              (isClosing /\ settled[r] = "new" /\ settled'[r] # "new") =>
                  /\ settled'[r] = "rejected"
                  /\ queue' = queue /\ inbox' = inbox /\ nextId' = nextId
       /\ closePc' = "closed" => worker' = 0 /\ pendingRequests' = {}]_vars

\* C16 witness: close() has returned after a request enqueued before it was
\* answered by the worker and a request enqueued after it began was rejected.
C16_Witness ==
    /\ closePc = "closed"
    /\ nextId = 2
    /\ \E r1, r2 \in Requests : settled[r1] = "resolved" /\ settled[r2] = "rejected"

(***************************************************************************)
(* Part 4.  The HTTP server of the serve command (src/unnamed/part_002)    *)
(***************************************************************************)

\* Bounds of the server model: the "data" events of one request, and the files
\* of the working tree the background sync walks.
MaxChunks == 2
MaxBgFiles == 2

\* Program constant.
MAX_REQUEST_BYTES == 10485760

\* The server's token (randomUUID()) and the directory it serves (process.cwd()).
authToken == <<"t">>
RootDir == <<"/", "r">>

Bearer == <<"B", "e", "a", "r", "e", "r", " ">>
Header(v) == [present |-> TRUE, value |-> v]
AuthHeaders ==
    {NoAuth, Header(<<>>), Header(Bearer), Header(authToken), Header(<<"x">>),
     Header(Bearer \o authToken), Header(Bearer \o <<"x">>)}
Methods == {"GET", "POST"}
NoUrl == ""
Urls == {NoUrl, "/health", "/search", "/other"}
DeclaredLengths == {NotANumber, 0, MAX_REQUEST_BYTES, MAX_REQUEST_BYTES + 1}
ChunkSizes == {1, MAX_REQUEST_BYTES - 1, MAX_REQUEST_BYTES}

\* Values of body.path: relative and absolute, below, equal to and outside the
\* root, with a sibling of the root that has the root's name as a prefix.
BodyPaths ==
    {<<>>,
     <<"a">>,
     <<"a", "/", ".", ".">>,
     <<".", ".", "/", "r">>,
     <<".", ".", "/", "r", "2">>,
     <<".", ".", "/", ".", ".", "/", "e">>,
     <<"a", "/", ".", ".", "/", ".", ".", "/", "e">>,
     <<"/", "r">>,
     <<"/", "r", "/">>,
     <<"/", "r", "/", "a">>,
     <<"/", "r", "2">>,
     <<"/", "e">>,
     <<"/">>,
     <<"/", "r", "/", ".", ".", "/", "e">>}
\* A filters object with one clause on the path, as the handler builds it.
pathFilters(p) ==
    [isObject |-> TRUE, all |-> <<[key |-> "path", operator |-> "starts_with", value |-> p]>>]

\* Values of body.filters: absent, an object without a clause, and objects
\* with a path clause below and outside the root.
BodyFilters ==
    {NoFilters,
     [isObject |-> TRUE, all |-> <<>>],
     pathFilters(<<"/", "r", "/", "a">>),
     pathFilters(<<"/", "e">>)}

Bodies ==
    {NoBody}
    \cup {[valid |-> TRUE, query |-> q, pathIsString |-> FALSE, path |-> <<>>,
           filters |-> NoFilters] : q \in {"", "q"}}
    \cup {[valid |-> TRUE, query |-> "q", pathIsString |-> TRUE, path |-> p,
           filters |-> NoFilters] : p \in BodyPaths}
    \cup {[valid |-> TRUE, query |-> "q", pathIsString |-> ps, path |-> <<>>,
           filters |-> f] : ps \in BOOLEAN, f \in BodyFilters \ {NoFilters}}
    \cup {[valid |-> TRUE, query |-> "q", pathIsString |-> TRUE, path |-> p,
           filters |-> f] : p \in {<<"a">>, <<"/", "e">>}, f \in BodyFilters \ {NoFilters}}

\* The token the handler compares: the header without a leading "Bearer ", or
\* the header itself (undefined and the empty string included).
providedToken(rawAuth) ==
    IF rawAuth.present /\ rawAuth.value # <<>> /\ startsWith(rawAuth.value, Bearer)
    THEN Header(SubSeq(rawAuth.value, Len(Bearer) + 1, Len(rawAuth.value)))
    ELSE rawAuth

authorized(rawAuth) == providedToken(rawAuth) = Header(authToken)

\* Number.isFinite(declaredLength) && declaredLength > MAX_REQUEST_BYTES
declaredTooLarge(declared) == declared # NotANumber /\ declared > MAX_REQUEST_BYTES

\* The segments of a path string between its separators.
RECURSIVE splitSegments(_, _, _)
splitSegments(str, cur, acc) ==
    IF str = <<>> THEN Append(acc, cur)
    ELSE IF Head(str) = "/" THEN splitSegments(Tail(str), <<>>, Append(acc, cur))
    ELSE splitSegments(Tail(str), Append(cur, Head(str)), acc)

\* The segments of an absolute path with "", "." and ".." resolved; ".." at the
\* filesystem root stays at the root.
RECURSIVE normalizeSegments(_, _)
normalizeSegments(segs, stack) ==
    IF segs = <<>> THEN stack
    ELSE LET g == Head(segs)
         IN  IF g = <<>> \/ g = <<".">> THEN normalizeSegments(Tail(segs), stack)
             ELSE IF g = <<".", ".">>
                  THEN normalizeSegments(Tail(segs),
                           IF stack = <<>> THEN stack ELSE SubSeq(stack, 1, Len(stack) - 1))
                  ELSE normalizeSegments(Tail(segs), Append(stack, g))

RECURSIVE joinSegments(_)
joinSegments(stack) ==
    IF stack = <<>> THEN <<>> ELSE <<"/">> \o Head(stack) \o joinSegments(Tail(stack))

isAbsolute(p) == p # <<>> /\ Head(p) = "/"

\* path.resolve of an absolute path: no "." or "..", no trailing separator.
pathResolve(p) ==
    LET stack == normalizeSegments(splitSegments(p, <<>>, <<>>), <<>>)
    IN  IF stack = <<>> THEN <<"/">> ELSE joinSegments(stack)

\* path.normalize of an absolute path: as resolve, a trailing separator kept.
pathNormalize(p) ==
    LET r == pathResolve(p)
    IN  IF p[Len(p)] = "/" /\ r # <<"/">> THEN Append(r, "/") ELSE r

pathJoin(a, b) == pathNormalize(a \o <<"/">> \o b)

\* Mutant of searchPath: the prefix test without the separator.
searchPath_NoSeparator(b) ==
    IF ~b.pathIsString \/ b.path = <<>> THEN [ok |-> TRUE, path |-> RootDir]
    ELSE LET normalized ==
                 pathNormalize(IF isAbsolute(b.path) THEN b.path ELSE pathJoin(RootDir, b.path))
             resolvedRoot == pathResolve(RootDir)
             resolvedPath == pathResolve(normalized)
         IN  IF ~startsWith(resolvedPath, resolvedRoot)
             THEN [ok |-> FALSE, path |-> <<>>]
             ELSE [ok |-> TRUE, path |-> resolvedPath]

\* The searchPath of the /search handler; ok = FALSE is the thrown
\* "Access denied: path outside repository root".
searchPath(b) ==
    IF ~b.pathIsString \/ b.path = <<>> THEN [ok |-> TRUE, path |-> RootDir]
    ELSE LET normalized ==
                 pathNormalize(IF isAbsolute(b.path) THEN b.path ELSE pathJoin(RootDir, b.path))
             resolvedRoot == pathResolve(RootDir)
             resolvedPath == pathResolve(normalized)
         IN  IF ~startsWith(resolvedPath, resolvedRoot \o <<"/">>) /\ resolvedPath # resolvedRoot
             THEN [ok |-> FALSE, path |-> <<>>]
             ELSE [ok |-> TRUE, path |-> resolvedPath]

\* respondJson(res, status, payload) ends the handler.
Respond(status) ==
    /\ responses' = Append(responses, status)
    /\ hpc' = "done"

\* A request arrives: the handler runs to its first return or listener.  The
\* handler's variables are local to the request, so one request is followed
\* at a time.
HttpRequest(auth, method, url, declared) ==
    /\ hpc \in {"idle", "done"}
    /\ bg.pc # "unstarted"
    /\ hreq' = [auth |-> auth, method |-> method, url |-> url, declared |-> declared]
    /\ sentProgress' = <<>>
    /\ sentStatus' = <<>>
    /\ filters' = NoFilters
    /\ body' = NoBody
    /\ receivedBytes' = 0
    /\ rejected' = FALSE
    /\ nchunks' = 0
    /\ storeQueries' = 0
    /\ IF ~authorized(auth) THEN responses' = <<401>> /\ hpc' = "done"
       ELSE IF url = NoUrl THEN responses' = <<400>> /\ hpc' = "done"
       ELSE IF method = "GET" /\ url = "/health" THEN responses' = <<200>> /\ hpc' = "done"
       ELSE IF method = "POST" /\ url = "/search" THEN
            IF declaredTooLarge(declared) THEN responses' = <<413>> /\ hpc' = "done"
            ELSE responses' = <<>> /\ hpc' = IF isIndexing THEN "wait" ELSE "body"
       ELSE responses' = <<404>> /\ hpc' = "done"
    /\ UNCHANGED <<isIndexing, progress, bg>>
    /\ UNCHANGED <<wmVars, syncVars, searchVars, cmdVars, serveVars, msync, watchCmd>>

\* The wait for the initial indexing ends: the listeners are attached.
WaitOver ==
    /\ hpc = "wait"
    /\ ~isIndexing
    /\ hpc' = "body"
    /\ UNCHANGED <<hreq, body, receivedBytes, rejected, nchunks, responses, storeQueries,
                   isIndexing, progress, bg>>
    /\ UNCHANGED <<sentProgress, sentStatus, filters>>
    /\ UNCHANGED <<wmVars, syncVars, searchVars, cmdVars, serveVars, msync, watchCmd>>

\* Math.round((processed / total) * 100); 0 / 0 is NaN.
percent(count, of) ==
    IF of = 0 THEN NotANumber
    ELSE (200 * count + of) \div (2 * of)

\* Five seconds have passed and isIndexing is still set: 503 with the progress.
WaitExpired ==
    /\ hpc = "wait"
    /\ isIndexing
    /\ Respond(503)
    /\ sentProgress' = <<percent(progress.processed, progress.total)>>
    /\ UNCHANGED <<sentStatus, filters>>
    /\ UNCHANGED <<hreq, body, receivedBytes, rejected, nchunks, storeQueries, isIndexing,
                   progress, bg>>
    /\ UNCHANGED <<wmVars, syncVars, searchVars, cmdVars, serveVars, msync, watchCmd>>

\* The serve action reaches its store.  On an empty store isIndexing is set and
\* initialSync is called without await, over a working tree of n files; the
\* watcher and the server follow.
ServeStart(empty, n) ==
    /\ bg.pc = "unstarted"
    /\ empty \/ n = 0
    /\ isIndexing' = empty
    /\ bg' = IF empty THEN [NoBg EXCEPT !.pc = "walk", !.total = n]
             ELSE [NoBg EXCEPT !.pc = "none"]
    /\ UNCHANGED <<hreq, hpc, body, receivedBytes, rejected, nchunks, responses, storeQueries,
                   progress, sentProgress, sentStatus, filters>>
    /\ UNCHANGED <<wmVars, syncVars, searchVars, cmdVars, serveVars, msync, watchCmd>>

\* A file pipeline of the background initialSync ends and calls onProgress: the
\* file was indexed, passed over (or its indexFile threw) after it was counted,
\* or its read threw before it was counted.  onProgress replaces indexState.
BgFile(outcome) ==
    /\ bg.pc = "walk"
    /\ bg.done < bg.total
    /\ LET nProcessed == IF outcome = "unread" THEN bg.processed ELSE bg.processed + 1
           nIndexed == IF outcome = "indexed" THEN bg.indexed + 1 ELSE bg.indexed
       IN  /\ bg' = [bg EXCEPT !.done = @ + 1, !.processed = nProcessed, !.indexed = nIndexed]
           /\ isIndexing' = (nIndexed < bg.total)
           /\ progress' = [indexed |-> nIndexed, processed |-> nProcessed, total |-> bg.total]
    /\ UNCHANGED <<hreq, hpc, body, receivedBytes, rejected, nchunks, responses, storeQueries,
                   sentProgress, sentStatus, filters>>
    /\ UNCHANGED <<wmVars, syncVars, searchVars, cmdVars, serveVars, msync, watchCmd>>

\* Every pipeline has ended: initialSync goes on to its final MetaStore save and
\* the index rebuild.
BgWalkEnd ==
    /\ bg.pc = "walk"
    /\ bg.done = bg.total
    /\ bg' = [bg EXCEPT !.pc = "finish"]
    /\ UNCHANGED <<hreq, hpc, body, receivedBytes, rejected, nchunks, responses, storeQueries,
                   isIndexing, progress, sentProgress, sentStatus, filters>>
    /\ UNCHANGED <<wmVars, syncVars, searchVars, cmdVars, serveVars, msync, watchCmd>>

\* initialSync settles: its then / catch clear isIndexing.
BgSettle ==
    /\ bg.pc = "finish"
    /\ bg' = [bg EXCEPT !.pc = "settled"]
    /\ isIndexing' = FALSE
    /\ UNCHANGED <<hreq, hpc, body, receivedBytes, rejected, nchunks, responses, storeQueries,
                   progress, sentProgress, sentStatus, filters>>
    /\ UNCHANGED <<wmVars, syncVars, searchVars, cmdVars, serveVars, msync, watchCmd>>

\* Mutant of OnData: the cap is tested against the chunk, not the total.
OnData_PerChunk(c) ==
    /\ hpc = "body"
    /\ nchunks < MaxChunks
    /\ nchunks' = nchunks + 1
    /\ IF rejected THEN UNCHANGED <<receivedBytes, rejected, responses>>
       ELSE /\ receivedBytes' = receivedBytes + c
            /\ rejected' = (c > MAX_REQUEST_BYTES)
            /\ responses' = IF rejected' THEN Append(responses, 413) ELSE responses
    /\ UNCHANGED <<hreq, hpc, body, storeQueries, isIndexing, progress, bg>>
    /\ UNCHANGED <<sentProgress, sentStatus, filters>>
    /\ UNCHANGED <<wmVars, syncVars, searchVars, cmdVars, serveVars, msync, watchCmd>>

\* The "data" listener with a chunk of c bytes.  req.destroy() follows the 413;
\* events the stream still emits after it find `rejected` set.
OnData(c) ==
    /\ hpc = "body"
    /\ nchunks < MaxChunks
    /\ nchunks' = nchunks + 1
    /\ IF rejected THEN UNCHANGED <<receivedBytes, rejected, responses>>
       ELSE /\ receivedBytes' = receivedBytes + c
            /\ rejected' = (receivedBytes' > MAX_REQUEST_BYTES)
            /\ responses' = IF rejected' THEN Append(responses, 413) ELSE responses
    /\ UNCHANGED <<hreq, hpc, body, storeQueries, isIndexing, progress, bg>>
    /\ UNCHANGED <<sentProgress, sentStatus, filters>>
    /\ UNCHANGED <<wmVars, syncVars, searchVars, cmdVars, serveVars, msync, watchCmd>>

\* The filters of the /search handler: body.filters when it is an object, and
\* else one starts_with clause on searchPath.
searchFilters(b) ==
    IF b.filters.isObject THEN b.filters ELSE pathFilters(searchPath(b).path)

\* The "end" listener with the body b it parses: up to the call of store.search.
OnEnd(b) ==
    /\ hpc = "body"
    /\ IF rejected THEN /\ hpc' = "done"
                        /\ UNCHANGED <<body, responses, storeQueries>>
       ELSE /\ body' = b
            /\ IF ~b.valid THEN Respond(500) /\ UNCHANGED storeQueries
               ELSE IF b.query = "" THEN Respond(400) /\ UNCHANGED storeQueries
               ELSE IF ~searchPath(b).ok THEN Respond(500) /\ UNCHANGED storeQueries
               ELSE /\ storeQueries' = storeQueries + 1
                    /\ hpc' = "search"
                    /\ UNCHANGED responses
    /\ filters' = IF ~rejected /\ b.valid /\ b.query # "" /\ searchPath(b).ok
                  THEN searchFilters(b)
                  ELSE filters
    /\ UNCHANGED <<hreq, receivedBytes, rejected, nchunks, isIndexing, progress, bg>>
    /\ UNCHANGED <<sentProgress, sentStatus>>
    /\ UNCHANGED <<wmVars, syncVars, searchVars, cmdVars, serveVars, msync, watchCmd>>

\* store.search settles: the results, or the catch's 500.
SearchSettles(ok) ==
    /\ hpc = "search"
    /\ Respond(IF ok THEN 200 ELSE 500)
    /\ sentStatus' = IF ok THEN <<IF isIndexing THEN "indexing" ELSE "ready">> ELSE sentStatus
    /\ sentProgress' = IF ok
                       THEN <<IF isIndexing THEN percent(progress.indexed, progress.total)
                              ELSE 100>>
                       ELSE sentProgress
    /\ UNCHANGED <<hreq, body, receivedBytes, rejected, nchunks, storeQueries, isIndexing, progress, bg>>
    /\ UNCHANGED filters
    /\ UNCHANGED <<wmVars, syncVars, searchVars, cmdVars, serveVars, msync, watchCmd>>

NextServer ==
    \/ \E auth \in AuthHeaders, method \in Methods, url \in Urls, declared \in DeclaredLengths :
           HttpRequest(auth, method, url, declared)
    \/ WaitOver
    \/ WaitExpired
    \/ \E empty \in BOOLEAN, n \in 0..MaxBgFiles : ServeStart(empty, n)
    \/ \E outcome \in {"indexed", "passed", "unread"} : BgFile(outcome)
    \/ BgWalkEnd
    \/ BgSettle
    \/ \E c \in ChunkSizes : OnData(c)
    \/ \E b \in Bodies : OnEnd(b)
    \/ \E ok \in BOOLEAN : SearchSettles(ok)

SpecServer == InitQuiet /\ [][NextServer]_vars

(***************************************************************************)
(* Properties of the server                                                *)
(***************************************************************************)

\* C18: every endpoint requires the bearer token: a request whose
\* Authorization header is missing or is not `Bearer <authToken>` with the
\* server's token is answered 401, and nothing else of the handler happens:
\* no body is read and no store query made.
C18_BearerTokenRequired ==
    (hpc # "idle" /\ hreq.auth # Header(Bearer \o authToken)) =>
        /\ responses = <<401>>
        /\ hpc = "done"
        /\ storeQueries = 0
        /\ nchunks = 0

\* The path p of a request body, taken from the root when relative, lies in
\* the root directory or below it, segment by segment.
WithinRoot(p) ==
    LET abs == IF isAbsolute(p) THEN p ELSE RootDir \o <<"/">> \o p
        segs == normalizeSegments(splitSegments(abs, <<>>, <<>>), <<>>)
        rootSegs == normalizeSegments(splitSegments(RootDir, <<>>, <<>>), <<>>)
    IN  /\ Len(segs) >= Len(rootSegs)
        /\ SubSeq(segs, 1, Len(rootSegs)) = rootSegs

\* C19: a POST /search whose `path` resolves outside the repository root is
\* answered with an error and no store query is made; a path equal to the
\* root or below it is accepted and the store is queried.
C19_PathInsideRoot ==
    [][\A b \in Bodies :
          (OnEnd(b) /\ ~rejected /\ b.valid /\ b.query # "") =>
              IF b.pathIsString /\ b.path # <<>> /\ ~WithinRoot(b.path)
              THEN responses' = <<500>> /\ storeQueries' = 0 /\ hpc' = "done"
              ELSE responses' = <<>> /\ storeQueries' = 1 /\ hpc' = "search"]_vars

\* C19 witness: a search of the sibling directory /r2 of the root /r, given as
\* ../r2, was answered 500 without a store query.
C19_Witness ==
    /\ hpc = "done"
    /\ body.pathIsString /\ body.path = <<".", ".", "/", "r", "2">>
    /\ responses = <<500>>
    /\ storeQueries = 0

\* C20: an authorized POST /search whose declared Content-Length or whose
\* received body exceeds the cap is answered 413, with exactly one response
\* and no store query.
C20_OversizedRejectedOnce ==
    (/\ hpc # "idle"
     /\ authorized(hreq.auth) /\ hreq.method = "POST" /\ hreq.url = "/search"
     /\ hreq.declared > MAX_REQUEST_BYTES \/ receivedBytes > MAX_REQUEST_BYTES) =>
        /\ responses = <<413>>
        /\ storeQueries = 0
        /\ hpc \in {"body", "done"}

\* C20 witness: the body passed the cap with its second chunk, the 413 was
\* sent, and the end of the stream was handled after it.
C20_Witness ==
    /\ hpc = "done"
    /\ hreq.declared = NotANumber
    /\ nchunks = 2
    /\ receivedBytes = MAX_REQUEST_BYTES + 1
    /\ responses = <<413>>

\* The background initialSync of serve is running.
InitialIndexRunning == bg.pc \in {"walk", "finish"}

\* C21: while the initial index is still running a /search request waits for
\* it; when the indexing finishes within the wait the search proceeds against
\* the store; when it is still running after 5 seconds the answer is 503 with
\* the current percent and no store query is made.
C21_SearchWaitsForInitialIndex ==
    [][/\ \A auth \in AuthHeaders, declared \in DeclaredLengths :
              (/\ HttpRequest(auth, "POST", "/search", declared)
               /\ authorized(auth) /\ ~declaredTooLarge(declared)
               /\ InitialIndexRunning) => hpc' = "wait"
       /\ WaitOver => ~InitialIndexRunning /\ hpc' = "body"
       /\ WaitExpired =>
              /\ InitialIndexRunning
              /\ responses' = <<503>> /\ storeQueries' = 0 /\ hpc' = "done"
              /\ sentProgress' = <<percent(bg.processed, bg.total)>>
              /\ sentProgress'[1] \in 0..100]_vars

(***************************************************************************)
(* Part 5: the index command and the search command                        *)
(***************************************************************************)

MaxCmdRuns == 2
MaxPolls == 2

ExecPaths == {<<>>, <<"s">>, <<"/", "o">>, <<"-", "-", "x">>}

otherVars == <<wmVars, syncVars, searchVars, httpVars, serveVars, msync, watchCmd>>

\* The action of a command is entered by a fresh process.
CmdEnter(c) ==
    /\ cmdPc \in {"idle", "returned", "exited"}
    /\ cmdRuns < MaxCmdRuns
    /\ cmd' = c
    /\ cstore' = "null"
    /\ calls' = NoCalls
    /\ autoSync' = FALSE
    /\ didSync' = FALSE
    /\ spinner' = "none"
    /\ exitCode' = 0
    /\ queryFilter' = NoFilter
    /\ thrown' = FALSE
    /\ cmdRuns' = cmdRuns + 1

\* osgrep index [--dry-run]
IndexAction(dry) ==
    /\ CmdEnter([kind |-> "index", dryRun |-> dry, sync |-> FALSE, isTTY |-> FALSE,
                 exec_path |-> <<>>])
    /\ cmdPc' = "ensureSetup"
    /\ UNCHANGED otherVars

\* osgrep search [--sync] [--dry-run] <pattern> [path]; a path argument that
\* starts with "--" is dropped.
SearchAction(dry, sync, tty, path) ==
    /\ CmdEnter([kind |-> "search", dryRun |-> dry, sync |-> sync, isTTY |-> tty,
                 exec_path |-> IF startsWith(path, <<"-", "-">>) THEN <<>> ELSE path])
    /\ cmdPc' = "fastPath"
    /\ UNCHANGED otherVars

\* The outer catch: the index command sets process.exitCode and returns, the
\* search command calls gracefulExit(1), whose process.exit comes before the
\* `finally` of the same try.
OuterCatch ==
    /\ exitCode' = 1
    /\ cmdPc' = IF cmd.kind = "index" THEN "returned" ELSE "exited"

\* The catch around the sync: spinner.fail and rethrow; in the index command the
\* `finally` with store.close runs before the outer catch.
InnerCatch ==
    /\ spinner' = "fail"
    /\ IF cmd.kind = "index"
       THEN thrown' = TRUE /\ cmdPc' = "close" /\ UNCHANGED exitCode
       ELSE thrown' = thrown /\ OuterCatch

\* tryServerFastPath: a running server answered the search, or none did.
FastPath(hit) ==
    /\ cmdPc = "fastPath"
    /\ cmdPc' = IF hit THEN "returned" ELSE "ensureSetup"
    /\ UNCHANGED <<cmd, cstore, calls, autoSync, didSync, spinner, exitCode, queryFilter,
                   thrown, cmdRuns>>
    /\ UNCHANGED otherVars

ensureSetup(ok) ==
    /\ cmdPc = "ensureSetup"
    /\ IF ok THEN cmdPc' = "createStore" /\ UNCHANGED exitCode ELSE OuterCatch
    /\ UNCHANGED <<cmd, cstore, calls, autoSync, didSync, spinner, queryFilter, thrown, cmdRuns>>
    /\ UNCHANGED otherVars

createStore(ok) ==
    /\ cmdPc = "createStore"
    /\ IF ok THEN cstore' = "open" /\ cmdPc' = "ensureStoreExists" /\ UNCHANGED exitCode
             ELSE cstore' = cstore /\ OuterCatch
    /\ UNCHANGED <<cmd, calls, autoSync, didSync, spinner, queryFilter, thrown, cmdRuns>>
    /\ UNCHANGED otherVars

\* ensureStoreExists; the search command goes on to options.sync || isStoreEmpty.
ensureStoreExists(ok) ==
    /\ cmdPc = "ensureStoreExists"
    /\ IF ~ok THEN autoSync' = autoSync /\ OuterCatch
       ELSE /\ UNCHANGED exitCode
            /\ autoSync' = (cmd.kind = "search" /\ cmd.sync)
            /\ cmdPc' = IF cmd.kind = "index" THEN "retrieve"
                        ELSE IF cmd.sync THEN "initialSync" ELSE "isStoreEmpty"
    /\ UNCHANGED <<cmd, cstore, calls, didSync, spinner, queryFilter, thrown, cmdRuns>>
    /\ UNCHANGED otherVars

isStoreEmpty(ok, empty) ==
    /\ cmdPc = "isStoreEmpty"
    /\ IF ~ok THEN autoSync' = autoSync /\ OuterCatch
       ELSE /\ UNCHANGED exitCode
            /\ autoSync' = empty
            /\ cmdPc' = IF empty THEN "initialSync" ELSE "search"
    /\ UNCHANGED <<cmd, cstore, calls, didSync, spinner, queryFilter, thrown, cmdRuns>>
    /\ UNCHANGED otherVars

\* The index command's store.retrieve, and store.create when that throws;
\* ok = FALSE is store.create throwing.
retrieveOrCreate(ok) ==
    /\ cmdPc = "retrieve"
    /\ IF ok THEN cmdPc' = "initialSync" /\ UNCHANGED <<spinner, thrown, exitCode>>
             ELSE InnerCatch
    /\ UNCHANGED <<cmd, cstore, calls, autoSync, didSync, queryFilter, cmdRuns>>
    /\ UNCHANGED otherVars

\* The command leaves the sync block of the search command: a dry run exits
\* through gracefulExit, any other run goes on to the query.
AfterSearchSync == IF cmd.dryRun THEN "exited" ELSE "search"

\* The call of initialSync and its outcome: it returns, it returns after the
\* 10 s abort of a search that is not on a TTY, or it throws.
initialSyncCall(outcome) ==
    /\ cmdPc = "initialSync"
    /\ outcome = "aborted" => cmd.kind = "search" /\ ~cmd.isTTY
    /\ calls' = [calls EXCEPT !.initialSync = @ + 1]
    /\ CASE outcome = "threw" -> didSync' = didSync /\ InnerCatch
         [] outcome = "aborted" ->
                /\ spinner' = "warn"
                /\ didSync' = TRUE
                /\ cmdPc' = AfterSearchSync
                /\ UNCHANGED <<thrown, exitCode>>
         [] outcome = "returned" /\ cmd.kind = "index" /\ cmd.dryRun ->
                /\ spinner' = "succeed"
                /\ cmdPc' = "close"
                /\ UNCHANGED <<didSync, thrown, exitCode>>
         [] OTHER ->
                /\ cmdPc' = "getInfo"
                /\ UNCHANGED <<didSync, spinner, thrown, exitCode>>
    /\ UNCHANGED <<cmd, cstore, autoSync, queryFilter, cmdRuns>>
    /\ UNCHANGED otherVars

\* One round of the wait loop: store.getInfo, and the loop ends when nothing is
\* pending or in progress.
waitLoop(ok, busy) ==
    /\ cmdPc = "getInfo"
    /\ busy => calls.getInfo + 1 < MaxPolls
    /\ calls' = [calls EXCEPT !.getInfo = @ + 1]
    /\ IF ~ok THEN didSync' = didSync /\ InnerCatch
       ELSE IF busy THEN UNCHANGED <<cmdPc, didSync, spinner, thrown, exitCode>>
       ELSE /\ spinner' = "succeed"
            /\ didSync' = (cmd.kind = "search")
            /\ cmdPc' = IF cmd.kind = "index" THEN "close" ELSE AfterSearchSync
            /\ UNCHANGED <<thrown, exitCode>>
    /\ UNCHANGED <<cmd, cstore, autoSync, queryFilter, cmdRuns>>
    /\ UNCHANGED otherVars

\* search_path of the search command; path.join drops an empty argument.
search_path(exec_path) ==
    IF isAbsolute(exec_path) THEN exec_path
    ELSE IF exec_path = <<>> THEN pathNormalize(RootDir)
    ELSE pathNormalize(pathJoin(RootDir, exec_path))

\* store.search of the search command with n rows returned; without rows the
\* command ends in gracefulExit, after the getInfo of the hint when it did not sync.
storeSearch(ok, n) ==
    /\ cmdPc = "search"
    /\ calls' = [calls EXCEPT !.search = @ + 1]
    /\ queryFilter' = search_path(cmd.exec_path)
    /\ IF ~ok THEN OuterCatch
       ELSE /\ UNCHANGED exitCode
            /\ cmdPc' = IF n > 0 THEN "close" ELSE IF ~didSync THEN "hint" ELSE "exited"
    /\ UNCHANGED <<cmd, cstore, autoSync, didSync, spinner, thrown, cmdRuns>>
    /\ UNCHANGED otherVars

\* The hint for an empty result: store.getInfo, whose failure is caught; then
\* gracefulExit.
noResultsHint(ok) ==
    /\ cmdPc = "hint"
    /\ calls' = [calls EXCEPT !.getInfo = @ + 1]
    /\ cmdPc' = "exited"
    /\ UNCHANGED <<cmd, cstore, autoSync, didSync, spinner, exitCode, queryFilter, thrown,
                   cmdRuns>>
    /\ UNCHANGED otherVars

\* The `finally`: store.close, whose failure is caught. The index command
\* then returns, through the outer catch when an error is pending; the search
\* command calls gracefulExit.
storeClose(ok) ==
    /\ cmdPc = "close"
    /\ calls' = [calls EXCEPT !.close = @ + 1]
    /\ cstore' = IF ok THEN "closed" ELSE cstore
    /\ thrown' = FALSE
    /\ IF thrown THEN OuterCatch
       ELSE /\ UNCHANGED exitCode
            /\ cmdPc' = IF cmd.kind = "index" THEN "returned" ELSE "exited"
    /\ UNCHANGED <<cmd, autoSync, didSync, spinner, queryFilter, cmdRuns>>
    /\ UNCHANGED otherVars

NextCmd ==
    \/ \E dry \in BOOLEAN : IndexAction(dry)
    \/ \E dry \in BOOLEAN, sync \in BOOLEAN, tty \in BOOLEAN, path \in ExecPaths :
           SearchAction(dry, sync, tty, path)
    \/ \E hit \in BOOLEAN : FastPath(hit)
    \/ \E ok \in BOOLEAN : ensureSetup(ok)
    \/ \E ok \in BOOLEAN : createStore(ok)
    \/ \E ok \in BOOLEAN : ensureStoreExists(ok)
    \/ \E ok \in BOOLEAN, empty \in BOOLEAN : isStoreEmpty(ok, empty)
    \/ \E ok \in BOOLEAN : retrieveOrCreate(ok)
    \/ \E outcome \in {"returned", "aborted", "threw"} : initialSyncCall(outcome)
    \/ \E ok \in BOOLEAN, busy \in BOOLEAN : waitLoop(ok, busy)
    \/ \E ok \in BOOLEAN, n \in 0..1 : storeSearch(ok, n)
    \/ \E ok \in BOOLEAN : noResultsHint(ok)
    \/ \E ok \in BOOLEAN : storeClose(ok)

SpecCmd == InitQuiet /\ [][NextCmd]_vars

\* C23: in every run of the index command in which the store was opened, the
\* store is closed exactly once, and only after the sync has ended; a dry run
\* that succeeds has called initialSync exactly once, has reported success and
\* has never polled store.getInfo.
C23_IndexClosesStoreOnce ==
    cmd.kind = "index" =>
        /\ calls.close > 0 => cmdPc = "returned"
        /\ cmdPc = "returned" =>
               /\ cstore # "null" => calls.close = 1
               /\ (cmd.dryRun /\ exitCode = 0) =>
                      calls.initialSync = 1 /\ spinner = "succeed" /\ calls.getInfo = 0

\* C24: the search command syncs before it queries exactly when the store is
\* empty or --sync is given; the store query is issued after that sync has
\* returned, with the search path as its starts_with filter; and after a
\* search that did not throw the store has been closed.
C24_SearchSyncsThenQueriesThenCloses ==
    (cmd.kind = "search" /\ calls.search = 1) =>
        /\ calls.initialSync = IF autoSync THEN 1 ELSE 0
        /\ autoSync => didSync
        /\ queryFilter = search_path(cmd.exec_path)
        /\ (cmdPc \in {"returned", "exited"} /\ exitCode = 0) => calls.close = 1

(***************************************************************************)
(* Properties of LocalStore.search                                         *)
(***************************************************************************)

\* A search is made in this step.
Searches == \E m \in {Undefined} \cup 1..MaxRows, perFile \in 1..MaxPerFile,
               pathFilter \in PathFilters, rerankOk \in BOOLEAN :
                SearchCommand(m, perFile, pathFilter, rerankOk)

\* The finalLimit of the request.
FinalLimit(req) == IF req.top_k = Undefined THEN DefaultTopK ELSE req.top_k

\* C25: when the reranker fails, every candidate gets its pre-rerank score, so
\* the search returns the candidates in their pre-rerank order, cut to top_k.
C25_RerankFallback ==
    [][(Searches /\ request'.rerank = "failed") =>
          LET cands == vectorResults(table, request'.pathFilter)
          IN  /\ Len(results') = Min(FinalLimit(request'), Len(cands))
              /\ \A i \in 1..Len(results') :
                     /\ results'[i].id = cands[i].id
                     /\ results'[i].path = cands[i].path
                     /\ results'[i].score = CandidateLimit - (i - 1)]_vars

\* A search with a failed reranker returned a row ahead of one the reranker
\* scores higher.
C25_Witness ==
    /\ request.rerank = "failed"
    /\ Len(results) >= 2
    /\ results[2].id <= Len(table)
    /\ table[results[1].id].rerank < table[results[2].id].rerank

\* C27: every row a search with a path prefix returns has a path that starts
\* with that prefix.
C27_ResultsUnderPrefix ==
    request.pathFilter # <<>> =>
        \A i \in 1..Len(results) : startsWith(results[i].path, request.pathFilter)

\* A search with a prefix returned rows although the table held a row outside
\* the prefix.
C27_Witness ==
    /\ request.pathFilter # <<>>
    /\ results # <<>>
    /\ \E k \in 1..Len(table) : ~startsWith(table[k].path, request.pathFilter)

MEMORY_WARNING_THRESHOLD_MB == 60
MEMORY_RESTART_THRESHOLD_MB == 75

ServerRssValues == {50, 70, 80}

\* 5 minutes, in units of 100 s.
WarningEvery == 3

Alive(p) == procs[p].pc \in {"starting", "listening", "clearing", "closing"}

Unborn == {p \in Pids : procs[p].pc = "unborn"}

\* A process started by spawn or by the user enters the serve action: the
\* signal handlers and the memory monitor are installed.
Spawned == [NoProc EXCEPT !.pc = "starting", !.monitor = TRUE]

\* osgrep serve, started by the user while no server runs.
ServeAction ==
    /\ \A p \in Pids : ~Alive(p)
    /\ Unborn # {}
    /\ LET p == CHOOSE x \in Unborn : \A y \in Unborn : x <= y
       IN  procs' = [procs EXCEPT ![p] = Spawned]
    /\ UNCHANGED <<portOwner, lockPid, now, warnings>>
    /\ UNCHANGED <<wmVars, syncVars, searchVars, httpVars, cmdVars, msync, watchCmd>>

\* shutdown() is called: it starts with clearServerLock unless the process is
\* shutting down already.
shutdown(pr) == IF pr.pc \in {"starting", "listening"} THEN [pr EXCEPT !.pc = "clearing"] ELSE pr

\* The lock file after clearServerLock.
clearServerLock == 0

\* The lock file after writeServerLock(port, pid, root, authToken).
writeServerLock(pid) == pid

\* server.listen(port): the port is bound when it is free; when another
\* process holds it the server emits "error" (EADDRINUSE), which has no
\* listener, so the process dies; its "exit" handler starts clearServerLock,
\* which may or may not get to remove the file.
listen(p, cleared) ==
    /\ procs[p].pc = "starting"
    /\ IF portOwner = 0
       THEN /\ ~cleared
            /\ portOwner' = p
            /\ procs' = [procs EXCEPT ![p].pc = "listening", ![p].writePending = TRUE]
            /\ UNCHANGED lockPid
       ELSE /\ procs' = [procs EXCEPT ![p] = [@ EXCEPT !.pc = "crashed", !.monitor = FALSE]]
            /\ lockPid' = IF cleared THEN clearServerLock ELSE lockPid
            /\ UNCHANGED portOwner
    /\ UNCHANGED <<now, warnings>>
    /\ UNCHANGED <<wmVars, syncVars, searchVars, httpVars, cmdVars, msync, watchCmd>>

\* The callback of server.listen: writeServerLock with process.pid.
listenCallback(p) ==
    /\ Alive(p)
    /\ procs[p].writePending
    /\ lockPid' = writeServerLock(p)
    /\ procs' = [procs EXCEPT ![p].writePending = FALSE]
    /\ UNCHANGED <<portOwner, now, warnings>>
    /\ UNCHANGED <<wmVars, syncVars, searchVars, httpVars, cmdVars, msync, watchCmd>>

\* One round of the memoryMonitor interval with the RSS it reads: at most one
\* warning per 5 minutes; above the restart threshold the interval is cleared,
\* a replacement is spawned for the same port and the 2 s timer is set.
memoryMonitor(p, rssMb) ==
    /\ Alive(p)
    /\ procs[p].monitor
    /\ rssMb > MEMORY_RESTART_THRESHOLD_MB => Unborn # {}
    /\ LET warn == rssMb > MEMORY_WARNING_THRESHOLD_MB
                   /\ now - procs[p].lastMemoryWarning > WarningEvery
           restart == rssMb > MEMORY_RESTART_THRESHOLD_MB
           c == CHOOSE x \in Unborn : \A y \in Unborn : x <= y
           warned == IF warn THEN [procs[p] EXCEPT !.lastMemoryWarning = now] ELSE procs[p]
       IN  /\ warnings' = IF warn THEN [warnings EXCEPT ![p] = Append(@, now)] ELSE warnings
           /\ procs' = IF restart
                       THEN [procs EXCEPT ![p] = [warned EXCEPT !.monitor = FALSE,
                                                               !.timer = TRUE,
                                                               !.child = c],
                                          ![c] = Spawned]
                       ELSE [procs EXCEPT ![p] = warned]
    /\ UNCHANGED <<portOwner, lockPid, now>>
    /\ UNCHANGED <<wmVars, syncVars, searchVars, httpVars, cmdVars, msync, watchCmd>>

\* The 2 s timer set at the restart fires: shutdown().
restartTimer(p) ==
    /\ Alive(p)
    /\ procs[p].timer
    /\ procs' = [procs EXCEPT ![p] = shutdown([@ EXCEPT !.timer = FALSE])]
    /\ UNCHANGED <<portOwner, lockPid, now, warnings>>
    /\ UNCHANGED <<wmVars, syncVars, searchVars, httpVars, cmdVars, msync, watchCmd>>

\* SIGINT, SIGTERM, the death of the parent or a failed start: shutdown().
signalShutdown(p) ==
    /\ procs[p].pc \in {"starting", "listening"}
    /\ procs' = [procs EXCEPT ![p] = shutdown(@)]
    /\ UNCHANGED <<portOwner, lockPid, now, warnings>>
    /\ UNCHANGED <<wmVars, syncVars, searchVars, httpVars, cmdVars, msync, watchCmd>>

\* shutdown's clearServerLock, whose failure is caught.
shutdownClear(p, ok) ==
    /\ procs[p].pc = "clearing"
    /\ lockPid' = IF ok THEN clearServerLock ELSE lockPid
    /\ procs' = [procs EXCEPT ![p].pc = "closing"]
    /\ UNCHANGED <<portOwner, now, warnings>>
    /\ UNCHANGED <<wmVars, syncVars, searchVars, httpVars, cmdVars, msync, watchCmd>>

\* The rest of shutdown: watcher and store are closed and process.exit(0)
\* frees the port; the "exit" handler starts another clearServerLock.
shutdownExit(p, cleared) ==
    /\ procs[p].pc = "closing"
    /\ procs' = [procs EXCEPT ![p] = [@ EXCEPT !.pc = "exited", !.monitor = FALSE,
                                               !.timer = FALSE, !.writePending = FALSE]]
    /\ portOwner' = IF portOwner = p THEN 0 ELSE portOwner
    /\ lockPid' = IF cleared THEN clearServerLock ELSE lockPid
    /\ UNCHANGED <<now, warnings>>
    /\ UNCHANGED <<wmVars, syncVars, searchVars, httpVars, cmdVars, msync, watchCmd>>

\* Time passes.
Tick ==
    /\ now < MaxTime
    /\ now' = now + 1
    /\ UNCHANGED <<procs, portOwner, lockPid, warnings>>
    /\ UNCHANGED <<wmVars, syncVars, searchVars, httpVars, cmdVars, msync, watchCmd>>

NextServe ==
    \/ ServeAction
    \/ \E p \in Pids, cleared \in BOOLEAN : listen(p, cleared)
    \/ \E p \in Pids : listenCallback(p)
    \/ \E p \in Pids, rssMb \in ServerRssValues : memoryMonitor(p, rssMb)
    \/ \E p \in Pids : restartTimer(p)
    \/ \E p \in Pids : signalShutdown(p)
    \/ \E p \in Pids, ok \in BOOLEAN : shutdownClear(p, ok)
    \/ \E p \in Pids, cleared \in BOOLEAN : shutdownExit(p, cleared)
    \/ Tick

SpecServe == InitQuiet /\ [][NextServe]_vars

\* C26: once a server that spawned a replacement over its memory has exited
\* and the replacement is through its start, the replacement is listening on
\* the port and the lock file holds the replacement's PID.
C26_ReplacementTakesOver ==
    \A p \in Pids :
        LET q == procs[p].child
        IN  (/\ q # 0
             /\ procs[p].pc = "exited"
             /\ procs[q].pc \in {"listening", "crashed"}
             /\ ~procs[q].writePending
             /\ procs[q].child = 0) =>
                /\ procs[q].pc = "listening"
                /\ portOwner = q
                /\ lockPid = q

(***************************************************************************)
(* Properties of the end of initialSync                                    *)
(***************************************************************************)

\* The files whose pipeline of this sync ended with the file indexed.
FilesIndexed == {p \in Paths : pipe[p].pc = "done" /\ pipe[p].result = "indexed"}

\* The index calls of a sync come in order and after every pipeline.
IndexCallsInOrder ==
    /\ createFTSIndex => PipelinesSettled /\ indexCalls = <<>>
    /\ createVectorIndex => PipelinesSettled /\ indexCalls = <<"fts">>

MaxMetaFiles == 101
MaxStale == 1

otherThanMeta == <<wmVars, syncVars, searchVars, httpVars, cmdVars, serveVars, watchCmd>>

SaveCall(kind, at) == [kind |-> kind, at |-> at]

\* initialSync is called over MaxMetaFiles files and nStale stale paths, with
\* SKIP_META_SAVE set or not and `limit` pipelines at a time; the stale deletes
\* are started unless the run is dry.
initialSyncBegin(dry, skip, nStale, limit) ==
    /\ msync.pc \in {"idle", "done", "rejected"}
    /\ msync.flying = NoFlying
    /\ LET toDelete == nStale > 0 /\ ~dry
       IN  msync' = [pc |-> IF toDelete THEN "stale" ELSE "walk",
                     dryRun |-> dry, skip |-> skip, limit |-> limit, hadStale |-> toDelete,
                     staleLeft |-> IF toDelete THEN nStale ELSE 0,
                     queued |-> MaxMetaFiles, active |-> 0, indexed |-> 0, saves |-> <<>>,
                     flying |-> NoFlying, onDisk |-> TRUE]
    /\ UNCHANGED otherThanMeta

\* One stale delete of the Promise.all settles: the entry of the path leaves
\* the MetaStore's map.
staleDeleteSettles ==
    /\ msync.pc = "stale"
    /\ msync.staleLeft > 0
    /\ msync' = [msync EXCEPT !.staleLeft = @ - 1, !.onDisk = FALSE]
    /\ UNCHANGED otherThanMeta

\* The awaited metaStore.save() after the stale deletes.
staleMetaSave(ok) ==
    /\ msync.pc = "stale"
    /\ msync.staleLeft = 0
    /\ msync' = [msync EXCEPT !.saves = Append(@, SaveCall("stale", 0)),
                              !.onDisk = IF ok THEN TRUE ELSE @,
                              !.pc = IF ok THEN "walk" ELSE "rejected"]
    /\ UNCHANGED otherThanMeta

\* pLimit starts the next queued pipeline.
pipelineStart ==
    /\ msync.pc = "walk"
    /\ msync.queued > 0
    /\ msync.active < msync.limit
    /\ msync' = [msync EXCEPT !.queued = @ - 1, !.active = @ + 1]
    /\ UNCHANGED otherThanMeta

\* The saves in flight after utils.indexFile has set an entry of the map
\* (wrote) and a periodic save was called (save): a snapshot taken before the
\* set is stale from then on, and the save called begins with its mkdir.
metaSet(f, wrote, save) ==
    LET g == IF wrote THEN [f EXCEPT !.stale = @ + f.fresh, !.fresh = 0] ELSE f
    IN  IF save THEN [g EXCEPT !.mkdir = @ + 1] ELSE g

\* The mkdir of a periodic save has settled: JSON.stringify takes the map as
\* it is now and writeFile is called.
saveSnapshot ==
    /\ msync.flying.mkdir > 0
    /\ msync' = [msync EXCEPT !.flying.mkdir = @ - 1, !.flying.fresh = @ + 1]
    /\ UNCHANGED otherThanMeta

\* The writeFile of a periodic save settles: meta.json holds its snapshot,
\* or, when it failed, what it held.
saveLands(stale, ok) ==
    /\ IF stale THEN msync.flying.stale > 0 ELSE msync.flying.fresh > 0
    /\ msync' = [msync EXCEPT !.flying.stale = IF stale THEN @ - 1 ELSE @,
                              !.flying.fresh = IF stale THEN @ ELSE @ - 1,
                              !.onDisk = IF ok THEN ~stale ELSE @]
    /\ UNCHANGED otherThanMeta

\* Mutant of pipelineEnd: the test of the count is made for every file.
pipelineEnd_CheckEveryFile(didIndex) ==
    /\ msync.pc = "walk"
    /\ msync.active > 0
    /\ LET n == IF didIndex THEN msync.indexed + 1 ELSE msync.indexed
           save == ~msync.dryRun /\ ~msync.skip /\ n % META_SAVE_EVERY = 0
           wrote == ~msync.dryRun /\ didIndex
       IN  msync' = [msync EXCEPT !.active = @ - 1,
                                  !.indexed = n,
                                  !.saves = IF save THEN Append(@, SaveCall("periodic", n))
                                            ELSE @,
                                  !.onDisk = IF wrote THEN FALSE ELSE @,
                                  !.flying = metaSet(@, wrote, save)]
    /\ UNCHANGED otherThanMeta

\* A pipeline ends, its file indexed (in a dry run: to be indexed) or not; the
\* count and its test run without an await between them, and the save that
\* the test starts is not awaited.
pipelineEnd(didIndex) ==
    /\ msync.pc = "walk"
    /\ msync.active > 0
    /\ LET n == IF didIndex THEN msync.indexed + 1 ELSE msync.indexed
           save == ~msync.dryRun /\ didIndex /\ ~msync.skip /\ n % META_SAVE_EVERY = 0
           wrote == ~msync.dryRun /\ didIndex
       IN  msync' = [msync EXCEPT !.active = @ - 1,
                                  !.indexed = n,
                                  !.saves = IF save THEN Append(@, SaveCall("periodic", n))
                                            ELSE @,
                                  !.onDisk = IF wrote THEN FALSE ELSE @,
                                  !.flying = metaSet(@, wrote, save)]
    /\ UNCHANGED otherThanMeta

\* Promise.all of the pipelines has settled: the awaited final
\* metaStore.save() of a run that is not dry.
finalMetaSave(ok) ==
    /\ msync.pc = "walk"
    /\ msync.queued = 0
    /\ msync.active = 0
    /\ msync.dryRun => ok
    /\ msync' = [msync EXCEPT !.saves = IF msync.dryRun THEN @
                                        ELSE Append(@, SaveCall("final", msync.indexed)),
                              !.onDisk = IF ~msync.dryRun /\ ok THEN TRUE ELSE @,
                              !.pc = IF ok THEN "done" ELSE "rejected"]
    /\ UNCHANGED otherThanMeta

NextMeta ==
    \/ \E dry \in BOOLEAN, skip \in BOOLEAN, nStale \in 0..MaxStale, limit \in 1..2 :
           initialSyncBegin(dry, skip, nStale, limit)
    \/ staleDeleteSettles
    \/ \E ok \in BOOLEAN : staleMetaSave(ok)
    \/ pipelineStart
    \/ \E didIndex \in BOOLEAN : pipelineEnd(didIndex)
    \/ saveSnapshot
    \/ \E stale \in BOOLEAN, ok \in BOOLEAN : saveLands(stale, ok)
    \/ \E ok \in BOOLEAN : finalMetaSave(ok)

SpecMeta == InitQuiet /\ [][NextMeta]_vars

\* The saves a sync that is not dry has called so far: one after the stale
\* deletes when there were any, one at each multiple of 50 the count of
\* indexed files has reached unless SKIP_META_SAVE, one at the end.
SavesDue ==
    LET walked == msync.queued = 0 /\ msync.active = 0
    IN  (IF msync.hadStale /\ msync.pc # "stale" THEN <<SaveCall("stale", 0)>> ELSE <<>>)
        \o [i \in 1..(IF msync.skip THEN 0 ELSE msync.indexed \div META_SAVE_EVERY) |->
                SaveCall("periodic", i * META_SAVE_EVERY)]
        \o (IF msync.pc \in {"done", "rejected"} /\ walked
            THEN <<SaveCall("final", msync.indexed)>> ELSE <<>>)

\* C30: in a sync that is not dry the MetaStore is saved once after the stale
\* deletes have completed, once each time the count of indexed files reaches
\* a multiple of 50, however the pipelines interleave and unless
\* SKIP_META_SAVE is set, and once at the end; there is no other save.
C30_MetaStoreSaves ==
    (msync.pc # "idle" /\ ~msync.dryRun) =>
        /\ msync.saves = SavesDue
        /\ msync.pc = "stale" => msync.queued = MaxMetaFiles /\ msync.active = 0

\* A sync with stale paths and two pipelines at a time has returned after
\* 100 or more indexed files and four saves.
C30_Witness ==
    /\ msync.pc = "done"
    /\ ~msync.dryRun
    /\ ~msync.skip
    /\ msync.hadStale
    /\ msync.limit = 2
    /\ msync.indexed >= 2 * META_SAVE_EVERY
    /\ Len(msync.saves) = 4


(***************************************************************************)
(* Part 8: progress, watcher, MetaStore and queue properties               *)
(***************************************************************************)

\* The files the running initialSync walked: those it made a pipeline for.
Walked == {p \in Paths : pipe[p].pc # "none"}

\* C31: initialSync invokes the progress callback exactly once for every
\* non-ignored file of the walk, files skipped and files whose processing
\* throws included; at every invocation indexed <= processed <= total, and
\* processed and indexed never decrease during the sync.
C31_ProgressOncePerFile ==
    [][ /\ (syncPc \notin {"stale", "walk"} /\ syncPc' \in {"stale", "walk"})
              => (\A p \in Paths : pipe'[p].pc # "none" <=> p \in RepoFiles)
        /\ \A p \in Paths :
              hist'.onProgress[p] > hist.onProgress[p]
                 => /\ hist'.onProgress[p] = 1
                    /\ p \in Walked
                    /\ indexed' <= processed'
                    /\ processed' <= total'
        /\ (syncPc = "walk" /\ syncPc' = "walk" /\ proc' = proc)
              => (processed' >= processed /\ indexed' >= indexed /\ total' = total)
        /\ (syncPc = "walk" /\ syncPc' \in {"fts", "vec", "done", "failed"})
              => \A p \in Paths :
                    hist.onProgress[p] = IF p \in Walked THEN 1 ELSE 0 ]_vars

\* A sync went past its pipelines with a file skipped as unchanged and a file
\* whose processing threw, each reported once.
C31_Witness ==
    /\ syncPc \in {"fts", "vec", "done"}
    /\ \E p \in Paths : pipe[p].result = "error" /\ hist.onProgress[p] = 1
    /\ \E p \in Paths : pipe[p].result = "unchanged" /\ hist.onProgress[p] = 1


\* C33: when the watcher has processed an unlink of a path (its store delete
\* succeeded and the MetaStore save that follows has settled), the store holds
\* no row of the path and the MetaStore has no entry for it; when the store
\* delete fails, the MetaStore entry of the path is left as it was.
C33_UnlinkRemovesPath ==
    [][ \A k \in WRuns :
          /\ (\E ok \in BOOLEAN : WatcherSave(k, ok))
                => LET p == Head(wrun[k].items).path
                   IN  rows'[p] = EmptyRows /\ metaData'[p] = NoHash
          /\ WatcherDelete(k, FALSE)
                => LET p == Head(wrun[k].items).path
                   IN  metaData'[p] = metaData[p] ]_vars


\* C34: the MetaStore is advisory.  When meta.json is absent or corrupt, so
\* that the MetaStore loads empty, the sync takes the hash of a path from the
\* rows of the index: a file whose rows all carry the hash of its current
\* content is skipped as unchanged and not indexed again.
C34_SkipsByIndexHash ==
    [][ \A p \in Paths :
          ( /\ PipeRead(p, TRUE)
            /\ ~dryRun
            /\ metaFile = NoMeta
            /\ metaData[p] = NoHash
            /\ disk[p] # Absent
            /\ rows[p] # EmptyRows
            /\ rows[p] = FullRows(disk[p]) )
              => (pipe'[p].pc = "done" /\ pipe'[p].result = "unchanged") ]_vars

\* C35: every progress value the server reports for /search, in the 503 and
\* in the search response, is an integer from 0 to 100 in every index state,
\* a total of 0 files included; the reported status is "indexing" exactly
\* while the initial index is running and "ready" otherwise.
C35_ProgressIsPercent ==
    [][ /\ WaitExpired => sentProgress'[1] \in 0..100
        /\ SearchSettles(TRUE) =>
              /\ sentProgress'[1] \in 0..100
              /\ sentStatus'[1] = (IF InitialIndexRunning THEN "indexing" ELSE "ready") ]_vars

\* A filters object confines a query to the root: it has a starts_with clause
\* on the path whose value is the root or lies below it.
ConfinedToRoot(f) ==
    \E i \in 1..Len(f.all) :
        /\ f.all[i].key = "path"
        /\ f.all[i].operator = "starts_with"
        /\ WithinRoot(f.all[i].value)

\* C37: every store query the /search handler issues is confined to the
\* repository root: the filters handed to store.search designate the root or
\* a path below it, whatever the request body, a body with its own `filters`
\* object included.
C37_QueriesConfinedToRoot ==
    hpc = "search" => ConfinedToRoot(filters)

\* C40: once the background initial sync has settled, the index state is not
\* "indexing" and never becomes "indexing" again, so that a search answered
\* from then on reports "ready"; no search reports "ready" while the initial
\* sync is still running.
C40_ReadyOnlyOnceSettled ==
    [][ /\ BgSettle => ~isIndexing'
        /\ bg.pc = "settled" => (~isIndexing /\ ~isIndexing')
        /\ (SearchSettles(TRUE) /\ bg.pc = "settled") => sentStatus' = <<"ready">>
        /\ (SearchSettles(TRUE) /\ sentStatus' = <<"ready">>) => ~InitialIndexRunning ]_vars

\* The worker manager under Node's event loop: a task that the queue can
\* start is started, a back-off that is over is followed by the retry, and a
\* timer that is set fires when its time has come; a worker that was told to
\* terminate does, and one that raised "error" exits.  Nothing else is assumed
\* of a worker: it may never reply.
SpecWMLive ==
    /\ InitQuiet
    /\ [][NextWM]_vars
    /\ WF_vars(StartTask)
    /\ WF_vars(RetryAttempt)
    /\ \A id \in AttemptIds : WF_vars(Timeout(id))
    /\ \A w \in WorkerIds : WF_vars(TerminateDone(w))
    /\ \A w \in WorkerIds : WF_vars(wstate[w] = "crashed" /\ WorkerExit(w, 1))

\* C36: every request passed to computeHybrid or encodeQuery eventually
\* settles, resolved or rejected, whatever the worker does, so that the queue
\* comes to the request behind it.
C36_EveryRequestSettles ==
    \A r \in Requests :
        (settled[r] = "queued") ~> (settled[r] \in {"resolved", "rejected"})

\* A request was rejected after the worker failed it twice, and the request
\* queued behind it was then dispatched and resolved.
C36_Witness ==
    /\ ~isClosing
    /\ running = NoTask
    /\ queue = <<>>
    /\ \E r, q \in Requests : settled[r] = "rejected" /\ settled[q] = "resolved"

\* C39: requests are dispatched to the worker in the order they were enqueued:
\* a request joins the queue at its end and is dispatched from its head, when
\* nothing else is in flight.  A request that fails neither stalls nor fails
\* the requests behind it: its rejection leaves them queued as they were with
\* the queue free to start the next, and a request settles only on the outcome
\* of its own attempts.
C39_FifoAndIsolation ==
    [][ \A r \in Requests :
          /\ (enqueue(r) /\ ~isClosing) => queue' = Append(queue, r)
          /\ (running'.req = r /\ running.req # r)
                => (running = NoTask /\ queue # <<>> /\ r = Head(queue) /\ queue' = Tail(queue))
          /\ (settled[r] = "queued" /\ settled'[r] # "queued")
                => /\ running.req = r
                   /\ running' = NoTask
                   /\ queue' = queue
                   /\ \A q \in Requests \ {r} : settled'[q] = settled[q] ]_vars

\* A request is in flight on the worker after another request was rejected.
C39_Witness ==
    /\ ~isClosing
    /\ running.phase = "await"
    /\ \E q \in Requests : q # running.req /\ settled[q] = "rejected"

\* C38: when a sync that is not dry has returned and every save it started
\* has completed, meta.json holds what the MetaStore's map holds: a periodic
\* save started earlier never leaves an older snapshot over the final save.
C38_FinalSaveWins ==
    (msync.pc = "done" /\ ~msync.dryRun /\ msync.flying = NoFlying) => msync.onDisk

(***************************************************************************)
(* Part 9: the watcher of the watch command                                *)
(***************************************************************************)

MaxEvents == 3

otherThanWatch == <<wmVars, syncVars, searchVars, httpVars, cmdVars, serveVars, msync>>

\* An event of a path joins the burst of the path while the path's debounce
\* timer is set, and else begins a new burst.
NoteEvent(w, p, kind) ==
    IF p \in w.debounceTimers
    THEN [w EXCEPT !.events[p] = Append(@, kind), !.count = @ + 1]
    ELSE [w EXCEPT !.events[p] = <<kind>>, !.ingest[p] = <<>>, !.count = @ + 1]

\* chokidar reports an add or a change: scheduleUpload clears the timer of the
\* path, if there is one, and sets a new one.
scheduleUpload(p, kind) ==
    /\ watchCmd.count < MaxEvents
    /\ kind \in {"add", "change"}
    /\ watchCmd' = [NoteEvent(watchCmd, p, kind) EXCEPT !.debounceTimers = @ \cup {p}]
    /\ UNCHANGED otherThanWatch

\* chokidar reports an unlink: handleUnlink returns for an ignored path and
\* else goes to store.deleteFile at once, whatever timer the path has.
handleUnlink(p) ==
    /\ watchCmd.count < MaxEvents
    /\ LET w == NoteEvent(watchCmd, p, "unlink")
       IN  watchCmd' = IF isIgnored(p) THEN w
                       ELSE [w EXCEPT !.ingest[p] = Append(@, "delete")]
    /\ UNCHANGED otherThanWatch

\* The timer of a path fires 300 ms after it was last set: the path leaves
\* debounceTimers and, unless it is ignored, uploadFile is called for it.
debounceTimerFires(p) ==
    /\ p \in watchCmd.debounceTimers
    /\ watchCmd' = [watchCmd EXCEPT
                       !.debounceTimers = @ \ {p},
                       !.ingest[p] = IF isIgnored(p) THEN @ ELSE Append(@, "upload")]
    /\ UNCHANGED otherThanWatch

NextWatch ==
    \/ \E p \in Paths, kind \in {"add", "change"} : scheduleUpload(p, kind)
    \/ \E p \in Paths : handleUnlink(p)
    \/ \E p \in Paths : debounceTimerFires(p)

SpecWatch == InitQuiet /\ [][NextWatch]_vars

\* C32: the events of a path that arrive within the debounce window of the
\* path cause a single ingest action, the one of the last event: when the
\* window of a path that is not ignored has closed, one action was started for
\* its events, a delete when the last event was an unlink and else an upload.
C32_OneIngestPerBurst ==
    \A p \in Paths :
        (~isIgnored(p) /\ p \notin watchCmd.debounceTimers /\ watchCmd.events[p] # <<>>)
            => watchCmd.ingest[p] =
                  << IF watchCmd.events[p][Len(watchCmd.events[p])] = "unlink"
                     THEN "delete" ELSE "upload" >>

====
